---- MODULE Spec2Model ----
(***************************************************************************)
(* Activity-to-time-entry aggregation of aandreyev/time-entries:           *)
(* the raw activity_log store, the time_entries store, the canonicalizer,  *)
(* the matter-code extractor, the unit converter and the aggregation runs  *)
(* and the review handlers (processor.py, database.py, jobs.py, api.py).   *)
(*                                                                         *)
(* Text is modelled by TLA+ strings; a character is a string of length 1.  *)
(* Three non-ASCII characters of the source's patterns are written with    *)
(* ASCII stand-ins that occur in no modelled title: EnDash, EmDash, ZWSP.  *)
(***************************************************************************)
EXTENDS Integers, Sequences, FiniteSets, TLC

VARIABLES upstream, activity_log, time_entries, next_entry_id, reviews, last, job, fetch,
          processed_time_entries, next_processed_id, update_metadata, now

\* the table of submitted entries and the counter of its id column
submissions == <<processed_time_entries, next_processed_id>>

\* the last_current_day_update row of update_metadata, and the wall clock
current_day == <<update_metadata, now>>

vars == <<upstream, activity_log, time_entries, next_entry_id, reviews, last, job, fetch,
          submissions, current_day>>

(***************************************************************************)
(* Bounds of the model.                                                    *)
(***************************************************************************)
\* rows a data_list handed to upsert_activity_data may hold
MaxBatch == 2
\* clear_time_entries is taken only while the AUTOINCREMENT counter is below this
MaxEntryId == 2
\* operator updates (status / notes) taken in one behaviour
MaxReviews == 1

\* the number of rows ever inserted into processed_time_entries
MaxProcessedId == 2

\* the longest duration converted to units
MaxSeconds == 1900

(***************************************************************************)
(* Characters and strings                                                  *)
(***************************************************************************)
EnDash == "~"
EmDash == "^"
ZWSP == "|"

Char(s, i) == SubSeq(s, i, i)

Min(S) == CHOOSE x \in S : \A y \in S : x <= y

Max(S) == CHOOSE x \in S : \A y \in S : x >= y

Digits == {"0", "1", "2", "3", "4", "5", "6", "7", "8", "9"}

LowerLetters == "abcdefghijklmnopqrstuvwxyz"

UpperLetters == "ABCDEFGHIJKLMNOPQRSTUVWXYZ"

Letters == {Char(LowerLetters, i) : i \in 1..26} \cup {Char(UpperLetters, i) : i \in 1..26}

\* \s of the re module (the characters modelled titles can hold)
Spaces == {" ", "\t", "\n"}

\* \w of the re module
WordChars == Letters \cup Digits \cup {"_"}

IsDigit(c) == c \in Digits

IsSpace(c) == c \in Spaces

\* str.lower on one character
LowerChar(c) ==
    IF \E i \in 1..26 : c = Char(UpperLetters, i)
    THEN Char(LowerLetters, CHOOSE i \in 1..26 : c = Char(UpperLetters, i))
    ELSE c

\* s[i:] starts with t (1-based i)
MatchAt(s, i, t) ==
    /\ i >= 1
    /\ i + Len(t) - 1 <= Len(s)
    /\ SubSeq(s, i, i + Len(t) - 1) = t

\* as MatchAt, under re.IGNORECASE
MatchAtCI(s, i, t) ==
    /\ i >= 1
    /\ i + Len(t) - 1 <= Len(s)
    /\ \A k \in 1..Len(t) : LowerChar(Char(s, i + k - 1)) = LowerChar(Char(t, k))

\* t in s
Contains(s, t) == \E i \in 1..(Len(s) + 1) : MatchAt(s, i, t)

StartsWith(s, t) == MatchAt(s, 1, t)

EndsWith(s, t) == Len(t) <= Len(s) /\ MatchAt(s, Len(s) - Len(t) + 1, t)

\* str.strip
Strip(s) ==
    LET keep == {i \in 1..Len(s) : ~IsSpace(Char(s, i))}
    IN  IF keep = {} THEN "" ELSE SubSeq(s, Min(keep), Max(keep))

\* the start of the maximal run of characters of class cls that ends just
\* before position e (a greedy cls* read backwards); e when the run is empty
RunStart(s, e, cls) ==
    LET stops == {i \in 1..(e - 1) : Char(s, i) \notin cls}
    IN  IF stops = {} THEN 1 ELSE Max(stops) + 1

\* the end (inclusive) of the maximal run of characters of class cls that
\* starts at b (a greedy cls*); b - 1 when the run is empty
RunEnd(s, b, cls) ==
    LET stops == {i \in b..Len(s) : Char(s, i) \notin cls}
    IN  IF stops = {} THEN Len(s) ELSE Min(stops) - 1

\* re.sub of a literal anchored at the end of s by the empty string
StripSuffix(s, t) == IF EndsWith(s, t) THEN SubSeq(s, 1, Len(s) - Len(t)) ELSE s

\* Optional values: None is the empty tuple, a present value x is <<x>>
None == <<>>

Some(x) == <<x>>

(***************************************************************************)
(* Unit Converter (processor.py)                                           *)
(***************************************************************************)
SecondsPerUnit == 360

TenthsPerUnit == 10

\* seconds_to_units, in tenths of a unit: math.ceil(seconds / 360 * 10) / 10.
\* The double arithmetic of the source gives the exact ceiling for every
\* duration the model can reach, so the ceiling is computed on integers.
\* the same rounded to the nearest tenth instead of up
RoundedUnits(seconds) ==
    IF seconds <= 0 THEN 1
    ELSE (seconds * TenthsPerUnit + SecondsPerUnit \div 2) \div SecondsPerUnit

seconds_to_units(seconds) ==
    IF seconds <= 0 THEN 1
    ELSE (seconds * TenthsPerUnit + SecondsPerUnit - 1) \div SecondsPerUnit

\* the copy of seconds_to_units inside database.populate_missing_time_units
populate_seconds_to_units(seconds) ==
    IF seconds <= 0 THEN 1
    ELSE (seconds * TenthsPerUnit + SecondsPerUnit - 1) \div SecondsPerUnit

(***************************************************************************)
(* Canonicalizer (processor.py)                                            *)
(***************************************************************************)
\* re.sub(r'<ws>-<ws>WORD$', '', s, flags=re.IGNORECASE), where <ws> is \s*
\* (minSpaces = 0) or \s+ (minSpaces = 1)
StripDashSuffixCI(s, word, minSpaces) ==
    LET p == Len(s) - Len(word) + 1
        a == RunStart(s, p, Spaces)
        b == RunStart(s, a - 1, Spaces)
    IN  IF /\ p >= 1
           /\ MatchAtCI(s, p, word)
           /\ a >= 2
           /\ Char(s, a - 1) = "-"
           /\ p - a >= minSpaces
           /\ (a - 1) - b >= minSpaces
        THEN SubSeq(s, 1, b - 1)
        ELSE s

\* position i starts a match of _\[(\d+)\]
BracketNumAt(s, i) ==
    /\ MatchAt(s, i, "_[")
    /\ RunEnd(s, i + 2, Digits) >= i + 2
    /\ MatchAt(s, RunEnd(s, i + 2, Digits) + 1, "]")

\* re.sub(r'_\[(\d+)\]', r'_\1', s)
RECURSIVE NormalizeBrackets(_)
NormalizeBrackets(s) ==
    LET hits == {i \in 1..Len(s) : BracketNumAt(s, i)}
    IN  IF hits = {} THEN s
        ELSE LET i == Min(hits)
                 e == RunEnd(s, i + 2, Digits)
             IN  SubSeq(s, 1, i) \o SubSeq(s, i + 2, e)
                     \o NormalizeBrackets(SubSeq(s, e + 2, Len(s)))

\* re.sub(r'^Portal\s*-\s*', 'Portal ', s) for s starting with 'Portal'
PortalDash(s) ==
    LET a == RunEnd(s, 7, Spaces) + 1
        b == RunEnd(s, a + 1, Spaces) + 1
    IN  IF a <= Len(s) /\ Char(s, a) = "-"
        THEN "Portal " \o SubSeq(s, b, Len(s))
        ELSE s

\* re.sub(r'\s+', ' ', s)
RECURSIVE CollapseSpaces(_)
CollapseSpaces(s) ==
    LET hits == {i \in 1..Len(s) : IsSpace(Char(s, i))}
    IN  IF hits = {} THEN s
        ELSE LET i == Min(hits)
                 e == RunEnd(s, i, Spaces)
             IN  SubSeq(s, 1, i - 1) \o " " \o CollapseSpaces(SubSeq(s, e + 1, Len(s)))

\* re.match(r'^Document\d+$', s)
IsDocumentN(s) ==
    /\ StartsWith(s, "Document")
    /\ Len(s) >= 9
    /\ \A i \in 9..Len(s) : IsDigit(Char(s, i))

\* the character class [\w\s\-\_\[\]] of the filename pattern
FileChars == WordChars \cup Spaces \cup {"-", "_", "[", "]"}

FileExtensions == <<"docx", "xlsx", "pptx", "csv", "md", "txt", "py", "js", "html", "css">>

\* the extension the alternation matches at position i, or "" when none does
ExtAt(s, i) ==
    LET ks == {k \in 1..Len(FileExtensions) : MatchAtCI(s, i, FileExtensions[k])}
    IN  IF ks = {} THEN "" ELSE FileExtensions[Min(ks)]

\* re.search(r'([\w\s\-\_\[\]]+\.(docx|...|css))', s, re.IGNORECASE):
\* None, or the matched text
FileMatch(s) ==
    LET dots == {j \in 2..Len(s) : /\ Char(s, j) = "."
                                   /\ Char(s, j - 1) \in FileChars
                                   /\ ExtAt(s, j + 1) # ""}
    IN  IF dots = {} THEN None
        ELSE Some(SubSeq(s, RunStart(s, Min(dots), FileChars),
                         Min(dots) + Len(ExtAt(s, Min(dots) + 1))))

\* re.search(r'(.+?\.pdf)', doc): None, or the matched text
PdfMatch(doc) ==
    LET hits == {j \in 2..Len(doc) : MatchAt(doc, j, ".pdf")}
    IN  IF hits = {} THEN None ELSE Some(SubSeq(doc, 1, Min(hits) + 3))

\* the Portal rewrite of the word-processor branch
PortalForm(canonical) ==
    IF StartsWith(canonical, "Portal") THEN CollapseSpaces(PortalDash(canonical))
    ELSE canonical

\* the closing test of the word-processor branch: generic names give None
NotGeneric(canonical) == IF IsDocumentN(canonical) THEN None ELSE Some(canonical)

\* the word-processor branch of get_canonical_name
WordCanonical(doc) ==
    NotGeneric(PortalForm(NormalizeBrackets(
        Strip(StripDashSuffixCI(Strip(StripDashSuffixCI(doc, "Read-Only", 0)),
                                "Compatibility Mode", 1)))))

\* match.group(1).strip() when the search matched, else the fallback
GroupOr(match, fallback) == IF match # None THEN Some(Strip(match[1])) ELSE fallback

\* the general file-pattern branch of get_canonical_name and its fallback
FileCanonical(doc) == GroupOr(FileMatch(doc), Some(doc))

\* get_canonical_name(doc, activity): None or Some(name)
get_canonical_name(doc, activity) ==
    IF Contains(activity, "microsoft word") THEN WordCanonical(doc)
    ELSE IF Contains(activity, "Preview") /\ Contains(doc, ".pdf")
    THEN GroupOr(PdfMatch(doc), FileCanonical(doc))
    ELSE FileCanonical(doc)

\* re.sub(r' - Google Chrome <en dash> .+$', '', s)
StripChromeTail(s) ==
    LET pat == " - Google Chrome " \o EnDash \o " "
        hits == {i \in 1..Len(s) : MatchAt(s, i, pat) /\ i + Len(pat) <= Len(s)}
    IN  IF hits = {} THEN s ELSE SubSeq(s, 1, Min(hits) - 1)

\* re.sub(r' \(\d+ unread\)$', '', s)
StripUnread(s) ==
    LET p == Len(s) - 7
        d == RunStart(s, p, Digits)
    IN  IF /\ EndsWith(s, " unread)")
           /\ d < p
           /\ MatchAt(s, d - 2, " (")
        THEN SubSeq(s, 1, d - 3)
        ELSE s

\* the noise_patterns loop of process_all_data and process_data_for_date
NoiseReduce(s) ==
    StripUnread(
      StripSuffix(
        StripSuffix(
          StripSuffix(StripChromeTail(s), " - Google Chrome"),
          " - Microsoft" \o ZWSP \o " Edge"),
        " " \o EmDash \o " Mozilla Firefox"))

VAGUE_NAMES ==
    {"No Details", "Paste", "New Tab", "Untitled", "Reminders", "Calendar",
     "Microsoft Teams", "Cursor", "ALP Clone", "Coding", "Notes",
     "Balloons", "Accept", "Table of Contents", "Change Case", "Styles",
     "Text Highlight Color", "Markup Options", "Open new and recent files",
     "TV", "Downloads", "Recents", "OneDrive", "Google", "Welcome", "GitHub",
     "Rules", "RescueTime", "Copilot", "reMarkable", "Pilot"}

VagueMaxLen == 25

\* re.match(r'^\d+ Reminder$', s)
IsNReminder(s) ==
    /\ EndsWith(s, " Reminder")
    /\ Len(s) >= 10
    /\ \A i \in 1..(Len(s) - 9) : IsDigit(Char(s, i))

\* a vagueness test on the leading phrase, without the length limit
VagueByPrefix(doc_name) ==
    \E v \in VAGUE_NAMES : StartsWith(Strip(doc_name), v)

is_vague_name(doc_name) ==
    LET doc_stripped == Strip(doc_name)
    IN  IF Len(doc_stripped) > VagueMaxLen THEN FALSE
        ELSE \/ doc_stripped \in VAGUE_NAMES
             \/ StartsWith(doc_stripped, "Search, Suggestions")
             \/ IsDocumentN(doc_stripped)
             \/ IsNReminder(doc_stripped)
             \/ doc_stripped \in {"Downloads", "Recent", "TV"}

\* the grouping key of a raw row, or None when the row is discarded
\* (processor.py: canonical name, noise reduction, truthiness and vagueness)
NoiseReduced(canonical) ==
    IF canonical = None \/ canonical = Some("") THEN canonical
    ELSE Some(NoiseReduce(canonical[1]))

Meaningful(canonical) ==
    IF canonical = None \/ canonical = Some("") \/ is_vague_name(canonical[1]) THEN None
    ELSE canonical

CanonicalKey(doc, activity) == Meaningful(NoiseReduced(get_canonical_name(doc, activity)))

(***************************************************************************)
(* Matter-Code Extractor (processor.py)                                    *)
(***************************************************************************)
MatterCodeLen == 5

FiveDigitsAt(s, d) ==
    /\ d >= 1
    /\ d + MatterCodeLen - 1 <= Len(s)
    /\ \A k \in 0..(MatterCodeLen - 1) : IsDigit(Char(s, d + k))

IsUnderscoreOrSpace(c) == c = "_" \/ IsSpace(c)

\* the digits of the leftmost match whose digit group may start at the
\* positions of ds, or None
FirstCode(s, ds) ==
    IF ds = {} THEN None ELSE Some(SubSeq(s, Min(ds), Min(ds) + MatterCodeLen - 1))

\* the free-standing pattern tried before the delimited ones
FreeStandingFirst(task_description) ==
    LET s == task_description
        n == MatterCodeLen
        all == {d \in 1..Len(s) : FiveDigitsAt(s, d)}
        spaced == {d \in all : /\ d = 1 \/ IsSpace(Char(s, d - 1))
                               /\ d + n > Len(s) \/ IsSpace(Char(s, d + n))}
        bracket == {d \in all : d >= 2 /\ Char(s, d - 1) = "[" /\ MatchAt(s, d + n, "]")}
    IN  IF spaced # {} THEN FirstCode(s, spaced) ELSE FirstCode(s, bracket)

\* the delimited patterns, the third without its lookahead
LooseTail(task_description) ==
    LET s == task_description
        n == MatterCodeLen
        all == {d \in 1..Len(s) : FiveDigitsAt(s, d)}
        bracket == {d \in all : d >= 2 /\ Char(s, d - 1) = "[" /\ MatchAt(s, d + n, "]")}
        surrounded == {d \in all : d >= 2 /\ Char(s, d - 1) = "_" /\ MatchAt(s, d + n, "_")}
        before == {d \in all : d >= 2 /\ Char(s, d - 1) = "_"}
        after == {d \in all : /\ d = 1 \/ IsUnderscoreOrSpace(Char(s, d - 1))
                              /\ MatchAt(s, d + n, "_")}
        spaced == {d \in all : /\ d = 1 \/ IsSpace(Char(s, d - 1))
                               /\ d + n > Len(s) \/ IsSpace(Char(s, d + n))}
    IN  IF s = "" THEN None
        ELSE IF bracket # {} THEN FirstCode(s, bracket)
        ELSE IF surrounded # {} THEN FirstCode(s, surrounded)
        ELSE IF before # {} THEN FirstCode(s, before)
        ELSE IF after # {} THEN FirstCode(s, after)
        ELSE FirstCode(s, spaced)

extract_matter_code(task_description) ==
    LET s == task_description
        n == MatterCodeLen
        all == {d \in 1..Len(s) : FiveDigitsAt(s, d)}
        bracket == {d \in all : d >= 2 /\ Char(s, d - 1) = "[" /\ MatchAt(s, d + n, "]")}
        surrounded == {d \in all : d >= 2 /\ Char(s, d - 1) = "_" /\ MatchAt(s, d + n, "_")}
        before == {d \in all : /\ d >= 2
                               /\ Char(s, d - 1) = "_"
                               /\ \/ d + n > Len(s)
                                  \/ IsUnderscoreOrSpace(Char(s, d + n))}
        after == {d \in all : /\ d = 1 \/ IsUnderscoreOrSpace(Char(s, d - 1))
                              /\ MatchAt(s, d + n, "_")}
        spaced == {d \in all : /\ d = 1 \/ IsSpace(Char(s, d - 1))
                               /\ d + n > Len(s) \/ IsSpace(Char(s, d + n))}
    IN  IF s = "" THEN None
        ELSE IF bracket # {} THEN FirstCode(s, bracket)
        ELSE IF surrounded # {} THEN FirstCode(s, surrounded)
        ELSE IF before # {} THEN FirstCode(s, before)
        ELSE IF after # {} THEN FirstCode(s, after)
        ELSE FirstCode(s, spaced)

(***************************************************************************)
(* Source hash (processor.py).  The md5 digest is taken as injective on    *)
(* its input, so the hash is represented by the hashed text itself.        *)
(***************************************************************************)
\* a hash of the application and the task alone
CrossDateHash(date_str, application, task_description) ==
    application \o "-" \o task_description

get_source_hash(date_str, application, task_description) ==
    date_str \o "-" \o application \o "-" \o task_description

(***************************************************************************)
(* The values the environment supplies: dates, applications, titles and    *)
(* observation payloads.  Each tuple is listed in the order of SQLite's    *)
(* BINARY collation, which ORDER BY log_date, activity, document follows.  *)
(***************************************************************************)
Dates == <<"2025-01-01", "2025-01-02">>

ActivityNames == <<"notion", "notion-app">>

Documents ==
    <<"Reminders", "[12345] plan.docx", "app-plan.docx", "plan.docx",
      "plan.docx - Google Chrome">>

Range(f) == {f[i] : i \in DOMAIN f}

Rank(seq, x) == CHOOSE i \in DOMAIN seq : seq[i] = x

Key(d, a, doc) == [log_date |-> d, activity |-> a, document |-> doc]

\* what a fetch may report for a triple
Obs160 == [time_spent_seconds |-> 160, category |-> "Writing", productivity |-> 2]

Obs200 == [time_spent_seconds |-> 200, category |-> "Editing", productivity |-> 1]

\* one tuple of a data_list
InputRow(d, a, doc, o) ==
    [log_date |-> d, time_spent_seconds |-> o.time_spent_seconds,
     activity |-> a, category |-> o.category,
     productivity |-> o.productivity, document |-> doc]

\* The tuples the upstream tracker may report, one set per behaviour: two
\* titles of one task and a vague title; one task on two dates and a vague
\* title; hyphenated application and file names.
Upstreams ==
    {{InputRow(Dates[1], "notion", "plan.docx", Obs160),
      InputRow(Dates[1], "notion", "plan.docx", Obs200),
      InputRow(Dates[1], "notion", "plan.docx - Google Chrome", Obs200),
      InputRow(Dates[1], "notion", "Reminders", Obs160)},
     {InputRow(Dates[1], "notion", "plan.docx", Obs160),
      InputRow(Dates[1], "notion", "plan.docx", Obs200),
      InputRow(Dates[2], "notion", "plan.docx", Obs160),
      InputRow(Dates[2], "notion", "Reminders", Obs200)},
     {InputRow(Dates[1], "notion", "app-plan.docx", Obs160),
      InputRow(Dates[1], "notion-app", "plan.docx", Obs200),
      InputRow(Dates[1], "notion", "plan.docx", Obs160)}}

\* The tuples reported in the behaviours that include an operator: two
\* observations of one task and a vague title; hyphenated application and
\* file names; two observations of a title that carries a matter code.
ReviewUpstreams ==
    {{InputRow(Dates[1], "notion", "plan.docx", Obs160),
      InputRow(Dates[1], "notion", "plan.docx", Obs200),
      InputRow(Dates[1], "notion", "Reminders", Obs160)},
     {InputRow(Dates[1], "notion", "app-plan.docx", Obs160),
      InputRow(Dates[1], "notion-app", "plan.docx", Obs200)},
     {InputRow(Dates[1], "notion", "[12345] plan.docx", Obs160),
      InputRow(Dates[1], "notion", "[12345] plan.docx", Obs200)}}

\* the data_list values a fetch of one date may hand to upsert_activity_data
DataLists(rows) ==
    {dl \in UNION {[1..n -> rows] : n \in 1..MaxBatch} :
        \A i \in DOMAIN dl : dl[i].log_date = dl[1].log_date}

\* an absent start_date / end_date (None and '' are both falsy in the source)
NoDate == ""

\* the (start_date, end_date) arguments of a run: one per branch of
\* get_unprocessed_data
Scopes == {<<NoDate, NoDate>>, <<Dates[1], Dates[1]>>, <<Dates[2], NoDate>>,
           <<NoDate, Dates[1]>>}

\* string comparison of two dates
DateLE(a, b) == Rank(Dates, a) <= Rank(Dates, b)

(***************************************************************************)
(* activity_log (database.py)                                              *)
(***************************************************************************)
KeyOf(r) == Key(r.log_date, r.activity, r.document)

\* upsert_sql with an ON CONFLICT branch that leaves the processed flag as it was
UpsertRowKeepingFlag(log, t) ==
    IF \E r \in log : KeyOf(r) = KeyOf(t)
    THEN {IF KeyOf(r) = KeyOf(t)
          THEN [r EXCEPT !.time_spent_seconds = t.time_spent_seconds,
                         !.category = t.category,
                         !.productivity = t.productivity]
          ELSE r : r \in log}
    ELSE log \cup {[log_date |-> t.log_date,
                    time_spent_seconds |-> t.time_spent_seconds,
                    activity |-> t.activity, category |-> t.category,
                    productivity |-> t.productivity, document |-> t.document,
                    processed |-> 0]}

\* one execution of upsert_sql: INSERT ... ON CONFLICT(log_date, activity,
\* document) DO UPDATE
UpsertRow(log, t) ==
    IF \E r \in log : KeyOf(r) = KeyOf(t)
    THEN {IF KeyOf(r) = KeyOf(t)
          THEN [r EXCEPT !.time_spent_seconds = t.time_spent_seconds,
                         !.category = t.category,
                         !.productivity = t.productivity,
                         !.processed = 0]
          ELSE r : r \in log}
    ELSE log \cup {[log_date |-> t.log_date,
                    time_spent_seconds |-> t.time_spent_seconds,
                    activity |-> t.activity, category |-> t.category,
                    productivity |-> t.productivity, document |-> t.document,
                    processed |-> 0]}

\* cursor.executemany(upsert_sql, data_list)
RECURSIVE UpsertAll(_, _)
UpsertAll(log, data_list) ==
    IF data_list = <<>> THEN log
    ELSE UpsertAll(UpsertRow(log, Head(data_list)), Tail(data_list))

\* UPDATE activity_log SET processed = 0 WHERE log_date = ?
\* UPDATE activity_log SET processed = 0, without the WHERE clause
MarkEveryDate(log, date_str) == {[r EXCEPT !.processed = 0] : r \in log}

\* a statement that updates no row
MarkNoDate(log, date_str) == log

MarkDate(log, date_str) ==
    {IF r.log_date = date_str THEN [r EXCEPT !.processed = 0] ELSE r : r \in log}

\* ORDER BY log_date, activity, document
RowLess(r1, r2) ==
    LET d1 == Rank(Dates, r1.log_date)
        d2 == Rank(Dates, r2.log_date)
        a1 == Rank(ActivityNames, r1.activity)
        a2 == Rank(ActivityNames, r2.activity)
        t1 == Rank(Documents, r1.document)
        t2 == Rank(Documents, r2.document)
    IN  \/ d1 < d2
        \/ d1 = d2 /\ a1 < a2
        \/ d1 = d2 /\ a1 = a2 /\ t1 < t2

RECURSIVE SortRows(_)
SortRows(S) ==
    IF S = {} THEN <<>>
    ELSE LET m == CHOOSE r \in S : \A x \in S \ {r} : RowLess(r, x)
         IN  <<m>> \o SortRows(S \ {m})

\* the WHERE clause of get_unprocessed_data
InScope(r, start_date, end_date) ==
    IF start_date # NoDate /\ end_date # NoDate
    THEN DateLE(start_date, r.log_date) /\ DateLE(r.log_date, end_date)
    ELSE IF start_date # NoDate THEN DateLE(start_date, r.log_date)
    ELSE IF end_date # NoDate THEN DateLE(r.log_date, end_date)
    ELSE TRUE

get_unprocessed_data(log, start_date, end_date) ==
    SortRows({r \in log : r.processed = 0 /\ InScope(r, start_date, end_date)})

\* the UPDATE issued once (cursor.execute), which marks one of record_ids only
MarkOneRecord(log, record_ids) ==
    IF record_ids = {} THEN log
    ELSE LET k == CHOOSE k \in record_ids : TRUE
         IN  {IF KeyOf(r) = k THEN [r EXCEPT !.processed = 1] ELSE r : r \in log}

\* the UPDATE with a WHERE clause that leaves out the document
MarkByActivity(log, record_ids) ==
    {IF \E k \in record_ids : k.log_date = r.log_date /\ k.activity = r.activity
     THEN [r EXCEPT !.processed = 1] ELSE r : r \in log}

\* an UPDATE that matches no row
MarkNoRecord(log, record_ids) == log

\* the UPDATE of mark_records_as_processed, over all record_ids
mark_records_as_processed(log, record_ids) ==
    {IF KeyOf(r) \in record_ids THEN [r EXCEPT !.processed = 1] ELSE r : r \in log}

(***************************************************************************)
(* Aggregation (processor.py)                                              *)
(***************************************************************************)
\* the canonical key of every title the environment supplies, computed once
CanonTable ==
    [d \in Range(Documents), a \in Range(ActivityNames) |-> CanonicalKey(d, a)]

Canon(r) == CanonTable[r.document, r.activity]

\* the rows that join a group: canonical_name and not is_vague_name(...)
Kept(rows) == SelectSeq(rows, LAMBDA r : Canon(r) # None)

\* the key of grouped_tasks a kept row is appended under
GroupOf(r) == <<r.log_date, r.activity, Canon(r)[1]>>

\* the keys of grouped_tasks, in insertion order
RECURSIVE GroupKeys(_)
GroupKeys(kept) ==
    IF kept = <<>> THEN <<>>
    ELSE LET rest == GroupKeys(SubSeq(kept, 1, Len(kept) - 1))
             g == GroupOf(kept[Len(kept)])
         IN  IF g \in Range(rest) THEN rest ELSE Append(rest, g)

RECURSIVE SumSeconds(_)
SumSeconds(rows) ==
    IF rows = <<>> THEN 0
    ELSE Head(rows).time_spent_seconds + SumSeconds(Tail(rows))

\* the tuple appended to entries_to_upsert for one group
EntryFor(g, kept) ==
    LET task_rows == SelectSeq(kept, LAMBDA r : GroupOf(r) = g)
        total_seconds == SumSeconds(task_rows)
    IN  [entry_date |-> g[1], application |-> g[2], task_description |-> g[3],
         total_seconds |-> total_seconds,
         time_units |-> seconds_to_units(total_seconds),
         source_hash |-> get_source_hash(g[1], g[2], g[3]),
         matter_code |-> extract_matter_code(g[3])]

entries_to_upsert(kept) ==
    LET gs == GroupKeys(kept) IN [i \in DOMAIN gs |-> EntryFor(gs[i], kept)]

\* processed_record_ids, as a set
RecordIds(kept) == {KeyOf(kept[i]) : i \in DOMAIN kept}

(***************************************************************************)
(* time_entries (database.py, processor.py).  A store is the pair of the   *)
(* table and the AUTOINCREMENT counter; only the freshness and the order   *)
(* of the entry_id values are modelled, not the values SQLite may skip.    *)
(***************************************************************************)
\* upsert_sql written as INSERT OR REPLACE: the row in conflict is deleted and
\* the new one inserted with the column defaults
ReplaceEntry(store, e) ==
    [rows |-> {x \in store.rows : x.source_hash # e.source_hash} \cup
                {[entry_id |-> store.next, entry_date |-> e.entry_date,
                  application |-> e.application,
                  task_description |-> e.task_description,
                  total_seconds |-> e.total_seconds,
                  time_units |-> e.time_units, status |-> "pending",
                  notes |-> None, matter_code |-> e.matter_code,
                  source_hash |-> e.source_hash]},
     next |-> store.next + 1]

\* an upsert_sql whose ON CONFLICT branch leaves time_units as stored
UpsertEntryStaleUnits(store, e) ==
    IF \E x \in store.rows : x.source_hash = e.source_hash
    THEN [store EXCEPT !.rows =
            {IF x.source_hash = e.source_hash
             THEN [x EXCEPT !.total_seconds = e.total_seconds,
                            !.task_description = e.task_description,
                            !.matter_code = e.matter_code]
             ELSE x : x \in store.rows}]
    ELSE [rows |-> store.rows \cup
                    {[entry_id |-> store.next, entry_date |-> e.entry_date,
                      application |-> e.application,
                      task_description |-> e.task_description,
                      total_seconds |-> e.total_seconds,
                      time_units |-> e.time_units, status |-> "pending",
                      notes |-> None, matter_code |-> e.matter_code,
                      source_hash |-> e.source_hash]},
          next |-> store.next + 1]

\* an upsert_sql whose ON CONFLICT branch adds the seconds to those stored
UpsertEntryAdding(store, e) ==
    IF \E x \in store.rows : x.source_hash = e.source_hash
    THEN [store EXCEPT !.rows =
            {IF x.source_hash = e.source_hash
             THEN [x EXCEPT !.total_seconds = @ + e.total_seconds,
                            !.time_units = seconds_to_units(x.total_seconds + e.total_seconds),
                            !.task_description = e.task_description,
                            !.matter_code = e.matter_code]
             ELSE x : x \in store.rows}]
    ELSE [rows |-> store.rows \cup
                    {[entry_id |-> store.next, entry_date |-> e.entry_date,
                      application |-> e.application,
                      task_description |-> e.task_description,
                      total_seconds |-> e.total_seconds,
                      time_units |-> e.time_units, status |-> "pending",
                      notes |-> None, matter_code |-> e.matter_code,
                      source_hash |-> e.source_hash]},
          next |-> store.next + 1]

\* one execution of upsert_sql: INSERT ... ON CONFLICT(source_hash) DO UPDATE
UpsertEntry(store, e) ==
    IF \E x \in store.rows : x.source_hash = e.source_hash
    THEN [store EXCEPT !.rows =
            {IF x.source_hash = e.source_hash
             THEN [x EXCEPT !.total_seconds = e.total_seconds,
                            !.time_units = e.time_units,
                            !.task_description = e.task_description,
                            !.matter_code = e.matter_code]
             ELSE x : x \in store.rows}]
    ELSE [rows |-> store.rows \cup
                    {[entry_id |-> store.next, entry_date |-> e.entry_date,
                      application |-> e.application,
                      task_description |-> e.task_description,
                      total_seconds |-> e.total_seconds,
                      time_units |-> e.time_units, status |-> "pending",
                      notes |-> None, matter_code |-> e.matter_code,
                      source_hash |-> e.source_hash]},
          next |-> store.next + 1]

\* cursor.executemany(upsert_sql, entries_to_upsert)
RECURSIVE UpsertEntries(_, _)
UpsertEntries(store, entries) ==
    IF entries = <<>> THEN store
    ELSE UpsertEntries(UpsertEntry(store, Head(entries)), Tail(entries))

Store == [rows |-> time_entries, next |-> next_entry_id]

\* some tuple of entries meets the ON CONFLICT(source_hash) branch on rows
Conflicts(rows, entries) ==
    \E i \in DOMAIN entries : \E x \in rows : x.source_hash = entries[i].source_hash

(***************************************************************************)
(* State.  activity_log and time_entries are the two tables, as sets of    *)
(* rows; next_entry_id is the AUTOINCREMENT counter of time_entries;       *)
(* reviews counts the operator updates taken; last describes the last      *)
(* operation that completed; job and fetch are the background process and  *)
(* fetch jobs (idle in Spec, where every operation runs alone);            *)
(* processed_time_entries is the table of submitted entries and            *)
(* next_processed_id the counter of its id column.                         *)
(***************************************************************************)
IdleJob == [pc |-> "idle", rows |-> <<>>]

\* the clock when the database is created: the first date, minute 0
Midnight == [day |-> 1, minute |-> 0]

IdleFetch == [pc |-> "idle", date |-> NoDate]

\* the database after initialize_database, with no job running
InitTables ==
    /\ activity_log = {}
    /\ time_entries = {}
    /\ next_entry_id = 1
    /\ reviews = 0
    /\ last = [op |-> "initialize_database"]
    /\ job = IdleJob
    /\ fetch = IdleFetch
    /\ processed_time_entries = {}
    /\ next_processed_id = 1
    /\ update_metadata = None
    /\ now = Midnight

Init == upstream \in Upstreams /\ InitTables

(***************************************************************************)
(* Operations of database.py                                               *)
(***************************************************************************)
upsert_activity_data(data_list) ==
    /\ activity_log' = UpsertAll(activity_log, data_list)
    /\ last' = [op |-> "upsert_activity_data",
                replaced |-> \E r \in activity_log, i \in DOMAIN data_list :
                                KeyOf(r) = KeyOf(data_list[i]) /\ r.processed = 1]
    /\ UNCHANGED <<current_day, submissions, upstream, time_entries, next_entry_id, reviews, job, fetch>>

mark_date_for_reprocessing(date_str) ==
    /\ activity_log' = MarkDate(activity_log, date_str)
    /\ last' = [op |-> "mark_date_for_reprocessing"]
    /\ UNCHANGED <<current_day, submissions, upstream, time_entries, next_entry_id, reviews, job, fetch>>

clear_time_entries ==
    /\ next_entry_id <= MaxEntryId
    /\ time_entries' = {}
    /\ last' = [op |-> "clear_time_entries"]
    /\ UNCHANGED <<current_day, submissions, upstream, activity_log, next_entry_id, reviews, job, fetch>>

ReviewStatuses == {"pending", "ignored", "submitted"}

\* the entry ids a caller may name: those stored, and one that is not
EntryIds == {x.entry_id : x \in time_entries} \cup {next_entry_id}

\* UPDATE time_entries SET status = ? WHERE entry_id = ?
SetStatus(rows, entry_id, status) ==
    {IF x.entry_id = entry_id THEN [x EXCEPT !.status = status] ELSE x : x \in rows}

\* UPDATE time_entries SET notes = ? WHERE entry_id = ?
SetNotes(rows, entry_id, notes) ==
    {IF x.entry_id = entry_id THEN [x EXCEPT !.notes = Some(notes)] ELSE x : x \in rows}

update_time_entry_status(entry_id, status) ==
    /\ reviews < MaxReviews
    /\ reviews' = reviews + 1
    /\ time_entries' = SetStatus(time_entries, entry_id, status)
    /\ last' = [op |-> "update_time_entry_status",
                result |-> IF \E x \in time_entries : x.entry_id = entry_id
                           THEN "ok" ELSE "not_found"]
    /\ UNCHANGED <<current_day, submissions, upstream, activity_log, next_entry_id, job, fetch>>

\* the status and notes arguments of database.update_time_entry: None or text
StatusArgs == {None, Some("billed")}

NotesArgs == {None, Some("checked")}

update_time_entry(entry_id, status, notes) ==
    /\ reviews < MaxReviews
    /\ reviews' = reviews + 1
    /\ LET r1 == IF status = None THEN time_entries
                 ELSE SetStatus(time_entries, entry_id, status[1])
           r2 == IF notes = None THEN r1 ELSE SetNotes(r1, entry_id, notes[1])
       IN  time_entries' = r2
    /\ last' = [op |-> "update_time_entry",
                result |-> IF status = None /\ notes = None THEN "no_updates"
                           ELSE IF \E x \in time_entries : x.entry_id = entry_id
                           THEN "ok" ELSE "not_found"]
    /\ UNCHANGED <<current_day, submissions, upstream, activity_log, next_entry_id, job, fetch>>

(***************************************************************************)
(* Handlers of api.py over time_entries and processed_time_entries.  last  *)
(* records the status code of the response, whether the detail of an error *)
(* names a missing entry, and whether the id the caller named was stored.  *)
(***************************************************************************)
\* the payload a client posts for the stored entry x
PayloadOf(x) ==
    [original_entry_id |-> x.entry_id, entry_date |-> x.entry_date,
     application |-> x.application, task_description |-> x.task_description,
     time_units |-> x.time_units, matter_code |-> x.matter_code,
     status |-> "submitted", notes |-> None, source_hash |-> x.source_hash]

\* a payload that names an entry id that is not stored
StalePayload ==
    [original_entry_id |-> next_entry_id, entry_date |-> Dates[1],
     application |-> ActivityNames[1], task_description |-> Documents[3],
     time_units |-> seconds_to_units(Obs160.time_spent_seconds), matter_code |-> None,
     status |-> "submitted", notes |-> None,
     source_hash |-> get_source_hash(Dates[1], ActivityNames[1], Documents[3])]

Payloads == {PayloadOf(x) : x \in time_entries} \cup {StalePayload}

\* ON CONFLICT(source_hash, entry_date)
SameSubmission(p, entry_data) ==
    p.source_hash = entry_data.source_hash /\ p.entry_date = entry_data.entry_date

\* an INSERT without the ON CONFLICT branch, on a table without the UNIQUE
\* constraint
InsertSubmission(rows, id, entry_data) == rows \cup {[q \in {"id"} |-> id] @@ entry_data}

\* database.create_processed_time_entry: the table after the upsert
UpsertSubmission(rows, id, entry_data) ==
    IF \E p \in rows : SameSubmission(p, entry_data)
    THEN {IF SameSubmission(p, entry_data)
          THEN [q \in {"id"} |-> p.id] @@ entry_data ELSE p : p \in rows}
    ELSE rows \cup {[q \in {"id"} |-> id] @@ entry_data}

\* database.update_time_entry_status raises ValueError for this entry_id
NoSuchEntry(entry_id) == \A x \in time_entries : x.entry_id # entry_id

\* the response of a handler whose call of update_time_entry_status named
\* entry_id: 200, or 500 with the detail "No time entry found with ID ..."
StatusResponse(entry_id) ==
    IF NoSuchEntry(entry_id)
    THEN [code |-> 500, detail |-> "not_found", known |-> FALSE]
    ELSE [code |-> 200, detail |-> "", known |-> TRUE]

\* POST /api/processed_time_entries
create_processed_time_entry(entry) ==
    /\ \/ next_processed_id <= MaxProcessedId
       \/ \E p \in processed_time_entries : SameSubmission(p, entry)
    /\ processed_time_entries' =
           UpsertSubmission(processed_time_entries, next_processed_id, entry)
    /\ next_processed_id' =
           IF \E p \in processed_time_entries : SameSubmission(p, entry)
           THEN next_processed_id ELSE next_processed_id + 1
    /\ time_entries' = SetStatus(time_entries, entry.original_entry_id, "submitted")
    /\ last' = [op |-> "create_processed_time_entry",
                entry_id |-> entry.original_entry_id,
                source_hash |-> entry.source_hash,
                entry_date |-> entry.entry_date,
                time_units |-> entry.time_units,
                replaced |-> \E p \in processed_time_entries : SameSubmission(p, entry)]
               @@ StatusResponse(entry.original_entry_id)
    /\ UNCHANGED <<current_day, upstream, activity_log, next_entry_id, reviews, job, fetch>>

\* PUT /api/time_entries/{entry_id}/ignore
ignore_time_entry(entry_id) ==
    /\ time_entries' = SetStatus(time_entries, entry_id, "ignored")
    /\ last' = [op |-> "ignore_time_entry", entry_id |-> entry_id]
               @@ StatusResponse(entry_id)
    /\ UNCHANGED <<current_day, submissions, upstream, activity_log, next_entry_id, reviews, job, fetch>>

\* database.get_processed_entry_by_id: the row with this id, or None
get_processed_entry_by_id(entry_id) ==
    IF \E p \in processed_time_entries : p.id = entry_id
    THEN Some(CHOOSE p \in processed_time_entries : p.id = entry_id)
    ELSE None

\* database.delete_processed_time_entry: the table without the row
delete_processed_time_entry(rows, entry_id) == {p \in rows : p.id # entry_id}

\* PUT /api/processed_time_entries/{entry_id}/revert
revert_processed_time_entry(entry_id) ==
    LET processed_entry == get_processed_entry_by_id(entry_id)
    IN  /\ IF processed_entry = None
           THEN /\ UNCHANGED <<processed_time_entries, time_entries>>
                /\ last' = [op |-> "revert_processed_time_entry", entry_id |-> 0,
                            code |-> 404, detail |-> "not_found", known |-> FALSE]
           ELSE /\ processed_time_entries' =
                       delete_processed_time_entry(processed_time_entries, entry_id)
                /\ time_entries' =
                       SetStatus(time_entries, processed_entry[1].original_entry_id, "pending")
                /\ last' = [op |-> "revert_processed_time_entry",
                            entry_id |-> processed_entry[1].original_entry_id]
                           @@ StatusResponse(processed_entry[1].original_entry_id)
        /\ UNCHANGED <<current_day, upstream, activity_log, next_entry_id,
                       next_processed_id, reviews, job, fetch>>

\* database.get_pending_time_entries: WHERE status = 'pending'
get_pending_time_entries == {x \in time_entries : x.status = "pending"}

\* database.get_time_entries_by_date: WHERE entry_date = ?
get_time_entries_by_date(date) == {x \in time_entries : x.entry_date = date}

\* GET /api/time_entries, with a date (by date) or without one (pending)
get_time_entries(date) ==
    /\ last' = [op |-> "get_time_entries", date |-> date,
                entries |-> IF date # NoDate THEN get_time_entries_by_date(date)
                            ELSE get_pending_time_entries]
    /\ UNCHANGED <<current_day, submissions, upstream, activity_log, time_entries, next_entry_id,
                   reviews, job, fetch>>

(***************************************************************************)
(* Aggregation runs of processor.py                                        *)
(***************************************************************************)
\* how the storage steps of a run end: no sqlite3.Error, one raised by the
\* upsert of time_entries (rolled back), or one raised by the update of
\* mark_records_as_processed (rolled back there, after the upsert's commit)
Outcomes == {"ok", "upsert_failed", "mark_failed"}

\* the result of a run that does not look at debug
RunResultNoDebug(rows, debug, outcome) ==
    IF rows = <<>> THEN "no_data"
    ELSE IF Kept(rows) = <<>> THEN "no_tasks"
    ELSE outcome

\* the result of a run over the selected rows
RunResult(rows, debug, outcome) ==
    IF rows = <<>> THEN "no_data"
    ELSE IF debug THEN "debug"
    ELSE IF Kept(rows) = <<>> THEN "no_tasks"
    ELSE outcome

\* total_processed_seconds: the total_seconds of the groups, added up
RECURSIVE total_processed_seconds(_)
total_processed_seconds(entries) ==
    IF entries = <<>> THEN 0
    ELSE Head(entries).total_seconds + total_processed_seconds(Tail(entries))

\* the leakage_seconds of the summary report, which the run prints after
\* its storage steps, whether or not they failed, and prints in no run
\* that returned before them
SummaryReport(rows, result) ==
    IF result \in Outcomes
    THEN Some(SumSeconds(rows) - total_processed_seconds(entries_to_upsert(Kept(rows))))
    ELSE None

\* the run completed and no storage step of it failed
Completed(result) == result \in {"ok", "no_data", "no_tasks"}

\* the run of process_all_data, whoever calls it
AllRun(debug, start_date, end_date, outcome) ==
    \E rows \in {get_unprocessed_data(activity_log, start_date, end_date)} :
    \E kept \in {Kept(rows)} :
    \E result \in {RunResult(rows, debug, outcome)} :
    \E written \in {UpsertEntries(Store, entries_to_upsert(kept))} :
        /\ outcome = "ok" \/ result = outcome
        /\ IF result \in {"ok", "mark_failed"}
           THEN time_entries' = written.rows /\ next_entry_id' = written.next
           ELSE UNCHANGED <<time_entries, next_entry_id>>
        /\ IF result = "ok"
           THEN activity_log' = mark_records_as_processed(activity_log, RecordIds(kept))
           ELSE UNCHANGED activity_log
        /\ last' = [op |-> "process_all_data",
                    start_date |-> start_date, end_date |-> end_date,
                    result |-> result,
                    raised |-> FALSE,
                    leakage_seconds |-> SummaryReport(rows, result),
                    conflict |-> /\ result \in {"ok", "mark_failed"}
                                 /\ Conflicts(time_entries, entries_to_upsert(kept)),
                    repeat |-> /\ last.op = "process_all_data"
                               /\ last.start_date = start_date
                               /\ last.end_date = end_date
                               /\ Completed(last.result)]
        /\ UNCHANGED <<current_day, submissions, upstream, reviews, fetch>>

process_all_data(debug, start_date, end_date, outcome) ==
    AllRun(debug, start_date, end_date, outcome) /\ UNCHANGED job

\* jobs.run_process_job: an unscoped run, after which the job prints
\* "Processing job completed successfully." unless the run raised
run_process_job(outcome) == process_all_data(FALSE, NoDate, NoDate, outcome)

\* what run_process_job announces after the run recorded in last
JobReport == IF last.raised THEN "raised" ELSE "completed successfully"

\* the orders in which a SELECT without ORDER BY may return the rows of S
Orderings(S) ==
    {q \in [1..Cardinality(S) -> S] : \A i, j \in DOMAIN q : i # j => q[i] # q[j]}

\* the run of process_data_for_date, whoever calls it
DateRun(date_str, debug, outcome) ==
    \E rows \in Orderings({r \in activity_log : r.log_date = date_str}) :
        LET kept == Kept(rows)
            result == IF rows = <<>> THEN "no_data"
                      ELSE IF debug THEN "debug" ELSE outcome
            written == UpsertEntries(Store, entries_to_upsert(kept))
        IN  /\ outcome \in {"ok", "upsert_failed"}
            /\ outcome = "ok" \/ result = outcome
            /\ IF result = "ok"
               THEN time_entries' = written.rows /\ next_entry_id' = written.next
               ELSE UNCHANGED <<time_entries, next_entry_id>>
            /\ last' = [op |-> "process_data_for_date", result |-> result,
                        date_str |-> date_str,
                        conflict |-> /\ result = "ok"
                                     /\ Conflicts(time_entries, entries_to_upsert(kept))]
            /\ UNCHANGED <<current_day, submissions, upstream, activity_log, reviews, job>>

process_data_for_date(date_str, debug, outcome) ==
    DateRun(date_str, debug, outcome) /\ UNCHANGED fetch

(***************************************************************************)
(* Spec: the fetch and aggregation operations, each running alone, with    *)
(* no storage failure.                                                     *)
(***************************************************************************)
Upsert == \E data_list \in DataLists(upstream) : upsert_activity_data(data_list)

MarkStale == \E d \in Range(Dates) : mark_date_for_reprocessing(d)

ProcessAll ==
    \E debug \in BOOLEAN, scope \in Scopes :
        process_all_data(debug, scope[1], scope[2], "ok")

ProcessDate ==
    \E d \in Range(Dates), debug \in BOOLEAN : process_data_for_date(d, debug, "ok")

Next ==
    \/ Upsert
    \/ MarkStale
    \/ ProcessAll
    \/ ProcessDate

Spec == Init /\ [][Next]_vars

(***************************************************************************)
(* SpecReview: unscoped aggregation runs with the operator's updates and   *)
(* clear_time_entries; the fetch stores one tuple at a time.               *)
(***************************************************************************)
InitReview == upstream \in ReviewUpstreams /\ InitTables

ReviewUpsert == \E r \in upstream : upsert_activity_data(<<r>>)

Clear == clear_time_entries

SetEntryStatus ==
    \E id \in EntryIds, st \in ReviewStatuses : update_time_entry_status(id, st)

UpdateEntry ==
    \E id \in EntryIds, st \in StatusArgs, n \in NotesArgs : update_time_entry(id, st, n)

ReviewProcessAll == process_all_data(FALSE, NoDate, NoDate, "ok")

ReviewProcessDate == \E d \in Range(Dates) : process_data_for_date(d, FALSE, "ok")

NextReview ==
    \/ ReviewUpsert
    \/ MarkStale
    \/ ReviewProcessAll
    \/ ReviewProcessDate
    \/ Clear
    \/ SetEntryStatus
    \/ UpdateEntry

SpecReview == InitReview /\ [][NextReview]_vars

(***************************************************************************)
(* SpecFetch: the operations of the fetch job and unscoped aggregation     *)
(* runs.                                                                   *)
(***************************************************************************)
NextFetch ==
    \/ Upsert
    \/ MarkStale
    \/ ReviewProcessAll

SpecFetch == Init /\ [][NextFetch]_vars

(***************************************************************************)
(* SpecConc: one background process job and one background fetch job       *)
(* (api.py hands both to BackgroundTasks), interleaved at the granularity  *)
(* of their database connections.  process_all_data opens one connection   *)
(* to read, one to upsert time_entries and one to mark the rows; the fetch *)
(* job opens one to mark a date stale and one to upsert what it fetched.   *)
(***************************************************************************)
\* jobs.py: database.mark_date_for_reprocessing(date_str), then the fetch
FetchMark(date_str) ==
    /\ fetch.pc = "idle"
    /\ activity_log' = MarkDate(activity_log, date_str)
    /\ fetch' = [pc |-> "fetching", date |-> date_str]
    /\ UNCHANGED <<current_day, submissions, upstream, time_entries, next_entry_id, reviews, last, job>>

\* jobs.py: database.upsert_activity_data(processed_data) for the fetched date
FetchUpsert(data_list) ==
    /\ fetch.pc = "fetching"
    /\ data_list[1].log_date = fetch.date
    /\ activity_log' = UpsertAll(activity_log, data_list)
    /\ fetch' = IdleFetch
    /\ last' = [op |-> "upsert_activity_data", replaced |-> FALSE]
    /\ UNCHANGED <<current_day, submissions, upstream, time_entries, next_entry_id, reviews, job>>

\* jobs.py: the tracker reported nothing for the date
FetchNothing ==
    /\ fetch.pc = "fetching"
    /\ fetch' = IdleFetch
    /\ UNCHANGED <<current_day, submissions, upstream, activity_log, time_entries, next_entry_id, reviews, last, job>>

\* processor.py: unprocessed_rows = database.get_unprocessed_data(), and the
\* grouping of the rows read; a run with nothing to write ends here
JobRead ==
    /\ job.pc = "idle"
    /\ LET rows == get_unprocessed_data(activity_log, NoDate, NoDate)
           result == RunResult(rows, FALSE, "ok")
       IN  /\ job' = [pc |-> IF result = "ok" THEN "upsert" ELSE "idle", rows |-> rows]
           /\ last' = [op |-> "get_unprocessed_data", result |-> result]
    /\ UNCHANGED <<current_day, submissions, upstream, activity_log, time_entries, next_entry_id, reviews, fetch>>

\* processor.py: cursor.executemany(upsert_sql, entries_to_upsert); conn.commit()
JobUpsert ==
    /\ job.pc = "upsert"
    /\ LET written == UpsertEntries(Store, entries_to_upsert(Kept(job.rows)))
       IN  time_entries' = written.rows /\ next_entry_id' = written.next
    /\ job' = [job EXCEPT !.pc = "mark"]
    /\ last' = [op |-> "upsert_time_entries"]
    /\ UNCHANGED <<current_day, submissions, upstream, activity_log, reviews, fetch>>

\* processor.py: database.mark_records_as_processed(processed_record_ids)
JobMark ==
    /\ job.pc = "mark"
    /\ activity_log' = mark_records_as_processed(activity_log, RecordIds(Kept(job.rows)))
    /\ job' = [job EXCEPT !.pc = "idle"]
    /\ last' = [op |-> "mark_records_as_processed"]
    /\ UNCHANGED <<current_day, submissions, upstream, time_entries, next_entry_id, reviews, fetch>>

FetchStale == \E d \in Range(Dates) : FetchMark(d)

FetchStore == \E data_list \in DataLists(upstream) : FetchUpsert(data_list)

NextConc ==
    \/ FetchStale
    \/ FetchStore
    \/ FetchNothing
    \/ JobRead
    \/ JobUpsert
    \/ JobMark

SpecConc == Init /\ [][NextConc]_vars

(***************************************************************************)
(* SpecJobs: whole fetch jobs, date after date, as jobs.run_fetch_job and  *)
(* both modes of main.handle_fetch run them, on responses of the tracker   *)
(* that may hold rows with a field missing, and unscoped aggregation runs. *)
(***************************************************************************)
\* the fields of a complete row of the tracker: rank, time spent, number of
\* people, activity, document, category, productivity
RowFields == 7

FetchCallers == {"run_fetch_job", "handle_fetch", "handle_fetch_current"}

\* the dates a fetch job walks through, the latest first
DateLists == {<<Dates[2], Dates[1]>>, <<Dates[1]>>, <<Dates[2]>>}

\* what fetch_data_for_date may return for a date: nothing, or row_headers
\* (with or without every expected column) and rows, each complete or
\* lacking its last field
Responses(date_str) ==
    LET fetched == {[row |-> r, fields |-> n] :
                       r \in {q \in upstream : q.log_date = date_str},
                       n \in {RowFields - 1, RowFields}}
    IN  {None} \cup
        {Some([headers_ok |-> h, rows |-> rs]) :
            h \in BOOLEAN, rs \in UNION {[1..n -> fetched] : n \in 0..MaxBatch}}

\* the tuples the loop over the rows builds from the complete rows
CompleteRows(rows) ==
    LET complete == SelectSeq(rows, LAMBDA x : x.fields >= RowFields)
    IN  [i \in DOMAIN complete |-> complete[i].row]

\* jobs.run_fetch_job keeps the rows with len(row) >= 7
processed_data(response) ==
    IF response = None THEN <<>> ELSE CompleteRows(response[1].rows)

\* main.handle_fetch: headers.index raises ValueError, which is caught, on
\* a missing column; row[idx] raises IndexError, which is not, on a row
\* lacking a field
IndexErrorRaised(response) ==
    /\ response # None
    /\ response[1].headers_ok
    /\ \E i \in DOMAIN response[1].rows : response[1].rows[i].fields < RowFields

data_to_insert(response) ==
    IF response = None \/ ~response[1].headers_ok THEN <<>>
    ELSE CompleteRows(response[1].rows)

\* a fetch job is started for a list of dates
BeginFetch(caller, dates) ==
    /\ fetch.pc = "idle"
    /\ caller = "handle_fetch_current" => Len(dates) = 1
    /\ fetch' = [pc |-> "mark", date |-> NoDate, caller |-> caller, dates |-> dates]
    /\ last' = [op |-> "begin_fetch", caller |-> caller]
    /\ UNCHANGED <<current_day, submissions, upstream, activity_log, time_entries, next_entry_id,
                   reviews, job>>

\* database.mark_date_for_reprocessing(date_str) for the next date of the job
FetchMarkDate ==
    /\ fetch.pc = "mark"
    /\ activity_log' = MarkDate(activity_log, Head(fetch.dates))
    /\ fetch' = [fetch EXCEPT !.pc = "fetching", !.date = Head(fetch.dates)]
    /\ last' = [op |-> "mark_date_for_reprocessing", date |-> Head(fetch.dates)]
    /\ UNCHANGED <<current_day, submissions, upstream, time_entries, next_entry_id, reviews, job>>

\* fetch_data_for_date(date_str) returns and its rows are stored; the job
\* goes on to its next date, to the automatic run or to its end
FetchReceive(response) ==
    /\ fetch.pc = "fetching"
    /\ LET raised == fetch.caller # "run_fetch_job" /\ IndexErrorRaised(response)
           data_list == IF raised THEN <<>>
                        ELSE IF fetch.caller = "run_fetch_job"
                             THEN processed_data(response)
                             ELSE data_to_insert(response)
           rest == Tail(fetch.dates)
       IN  /\ activity_log' = UpsertAll(activity_log, data_list)
           /\ fetch' = IF raised THEN IdleFetch
                       ELSE IF rest # <<>>
                            THEN [fetch EXCEPT !.pc = "mark", !.dates = rest]
                       ELSE IF fetch.caller = "handle_fetch_current" /\ data_list # <<>>
                            THEN [fetch EXCEPT !.pc = "auto_process", !.dates = rest]
                       ELSE IdleFetch
           /\ last' = [op |-> "fetch_date", caller |-> fetch.caller,
                       date |-> fetch.date, raised |-> raised,
                       complete |-> processed_data(response),
                       short |-> IF response = None THEN 0
                                 ELSE Len(response[1].rows)
                                          - Len(processed_data(response)),
                       headers_ok |-> response # None /\ response[1].headers_ok,
                       rest |-> rest]
    /\ UNCHANGED <<current_day, submissions, upstream, time_entries, next_entry_id, reviews, job>>

\* main.handle_fetch: processor.process_data_for_date(today, debug=False)
AutoProcess ==
    /\ fetch.pc = "auto_process"
    /\ DateRun(fetch.date, FALSE, "ok")
    /\ fetch' = IdleFetch

StartFetch == \E caller \in FetchCallers, dates \in DateLists : BeginFetch(caller, dates)

Receive == \E response \in Responses(fetch.date) : FetchReceive(response)

NextJobs ==
    \/ StartFetch
    \/ FetchMarkDate
    \/ Receive
    \/ AutoProcess
    \/ ReviewProcessAll

SpecJobs == Init /\ [][NextJobs]_vars

(***************************************************************************)
(* SpecLive: fetches that stop at some point, and unscoped aggregation     *)
(* runs without storage failure that keep being scheduled.                 *)
(***************************************************************************)
\* the last fetch job has returned and none is started any more
StopFetching ==
    /\ fetch.pc = "idle"
    /\ fetch' = [pc |-> "stopped", date |-> NoDate]
    /\ UNCHANGED <<current_day, submissions, upstream, activity_log, time_entries, next_entry_id,
                   reviews, last, job>>

\* api.trigger_process_job: background_tasks.add_task(jobs.run_process_job)
ScheduleRun ==
    /\ job.pc = "idle"
    /\ job' = [pc |-> "scheduled", rows |-> <<>>]
    /\ UNCHANGED <<current_day, submissions, upstream, activity_log, time_entries, next_entry_id,
                   reviews, last, fetch>>

\* the scheduled job runs: jobs.run_process_job, an unscoped run
RunScheduled ==
    /\ job.pc = "scheduled"
    /\ AllRun(FALSE, NoDate, NoDate, "ok")
    /\ job' = IdleJob

NextLive ==
    \/ fetch.pc = "idle" /\ Upsert
    \/ fetch.pc = "idle" /\ MarkStale
    \/ StopFetching
    \/ ScheduleRun
    \/ RunScheduled

\* WF_vars(RunScheduled) written out: RunScheduled is enabled exactly when
\* job.pc = "scheduled", and it is the one step that makes the job idle again
RunFairness ==
    \/ []<>(job.pc # "scheduled")
    \/ []<><<job.pc = "scheduled" /\ job'.pc = "idle">>_vars

\* process jobs keep being scheduled, and a scheduled job is run
SpecLive ==
    Init /\ [][NextLive]_vars /\ WF_vars(ScheduleRun) /\ RunFairness

(***************************************************************************)
(* SpecDay: the current-day fetch of main.handle_fetch (fetch --current,   *)
(* with or without --force) under a clock that advances between commands,  *)
(* its automatic aggregation, and unscoped runs.  The upsert of the rows    *)
(* fetched may meet a storage failure.                                      *)
(***************************************************************************)
\* min_interval_minutes as main.handle_fetch passes it
MinIntervalMinutes == 15

MinutesPerDay == 1440

\* the minutes the clock is advanced by between two commands
ClockSteps == {7, 8}

\* no command is run later than this minute of a day
MaxMinute == 16

\* datetime.now().strftime('%Y-%m-%d')
Today == Dates[now.day]

\* (datetime.now() - last_timestamp).total_seconds() / 60
minutes_since(last_timestamp) ==
    (now.day - last_timestamp.day) * MinutesPerDay + now.minute - last_timestamp.minute

\* database.should_update_current_day, the flag of the pair it returns
should_update_current_day(min_interval_minutes) ==
    \/ update_metadata = None
    \/ update_metadata[1].date # Today
    \/ minutes_since(update_metadata[1].timestamp) >= min_interval_minutes

\* database.set_last_current_day_update: the row it leaves, date_str|timestamp
set_last_current_day_update(date_str) == Some([date |-> date_str, timestamp |-> now])

\* main.handle_fetch with args.current, up to the request sent to the tracker
CurrentDayFetch(force) ==
    /\ fetch.pc = "idle"
    /\ \E should_update \in {should_update_current_day(MinIntervalMinutes)} :
          /\ IF ~should_update /\ ~force
             THEN UNCHANGED <<activity_log, fetch>>
             ELSE /\ activity_log' = MarkDate(activity_log, Today)
                  /\ fetch' = [pc |-> "fetching", date |-> Today]
          /\ last' = [op |-> "handle_fetch", force |-> force,
                      should_update |-> should_update,
                      skipped |-> ~should_update /\ ~force]
    /\ UNCHANGED <<current_day, submissions, upstream, time_entries, next_entry_id,
                   reviews, job>>

\* main.handle_fetch with args.current, from the tracker's response to the
\* record of the update; outcome is that of the upsert of the rows
CurrentDayReceive(response, outcome) ==
    /\ fetch.pc = "fetching"
    /\ \E data \in {IF IndexErrorRaised(response) THEN <<>> ELSE data_to_insert(response)} :
          /\ activity_log' = IF data # <<>> /\ outcome = "ok"
                             THEN UpsertAll(activity_log, data) ELSE activity_log
          /\ update_metadata' = IF data # <<>>
                                THEN set_last_current_day_update(fetch.date)
                                ELSE update_metadata
          /\ fetch' = IF data # <<>> THEN [pc |-> "auto_process", date |-> fetch.date]
                      ELSE IdleFetch
          /\ last' = [op |-> "fetch_current_day",
                      raised |-> IndexErrorRaised(response),
                      upserted |-> IF outcome = "ok" THEN Len(data) ELSE 0,
                      failed |-> data # <<>> /\ outcome # "ok",
                      recorded |-> data # <<>>]
    /\ UNCHANGED <<now, submissions, upstream, time_entries, next_entry_id, reviews, job>>

\* time passes between two commands
Tick ==
    /\ fetch.pc = "idle"
    /\ \E d \in ClockSteps :
          /\ now.minute + d <= MaxMinute
          /\ now' = [now EXCEPT !.minute = @ + d]
    /\ UNCHANGED <<update_metadata, submissions, upstream, activity_log, time_entries,
                   next_entry_id, reviews, last, job, fetch>>

\* midnight passes between two commands
NextDay ==
    /\ fetch.pc = "idle"
    /\ now.day < Len(Dates)
    /\ now' = [day |-> now.day + 1, minute |-> 0]
    /\ UNCHANGED <<update_metadata, submissions, upstream, activity_log, time_entries,
                   next_entry_id, reviews, last, job, fetch>>

NextCurrentDay ==
    \/ \E force \in BOOLEAN : CurrentDayFetch(force)
    \/ \E response \in Responses(fetch.date), outcome \in {"ok", "upsert_failed"} :
          CurrentDayReceive(response, outcome)
    \/ AutoProcess
    \/ Tick
    \/ NextDay
    \/ fetch.pc = "idle" /\ ReviewProcessAll

SpecDay == Init /\ [][NextCurrentDay]_vars

(***************************************************************************)
(* SpecPair: two background process jobs started together (api.py hands   *)
(* each POST /api/jobs/process to BackgroundTasks) on a database that raw  *)
(* upserts, stale marks and earlier runs have filled and that no fetch     *)
(* touches any more.  Each job reads, upserts and marks on a connection   *)
(* of its own; job then holds both jobs and the tables as they started.    *)
(***************************************************************************)
Runs == 1..2

Tables == [activity_log |-> activity_log, time_entries |-> time_entries,
           next_entry_id |-> next_entry_id]

\* two requests to trigger_process_job: two run_process_job tasks
StartPair ==
    /\ job = IdleJob
    /\ job' = [pc |-> "pair", before |-> Tables,
               runs |-> [i \in Runs |-> [pc |-> "read", rows |-> <<>>]]]
    /\ UNCHANGED <<current_day, submissions, upstream, activity_log, time_entries, next_entry_id,
                   reviews, last, fetch>>

\* processor.py: unprocessed_rows = database.get_unprocessed_data(), and the
\* grouping of the rows read; a run with nothing to write ends here
PairRead(i) ==
    /\ job.pc = "pair"
    /\ job.runs[i].pc = "read"
    /\ \E rows \in {get_unprocessed_data(activity_log, NoDate, NoDate)} :
       \E result \in {RunResult(rows, FALSE, "ok")} :
           /\ job' = [job EXCEPT !.runs[i] =
                        [pc |-> IF result = "ok" THEN "upsert" ELSE "done",
                         rows |-> rows]]
           /\ last' = [op |-> "get_unprocessed_data", result |-> result]
    /\ UNCHANGED <<current_day, submissions, upstream, activity_log, time_entries, next_entry_id,
                   reviews, fetch>>

\* processor.py: cursor.executemany(upsert_sql, entries_to_upsert); conn.commit()
PairWrite(i) ==
    /\ job.pc = "pair"
    /\ job.runs[i].pc = "upsert"
    /\ \E written \in {UpsertEntries(Store, entries_to_upsert(Kept(job.runs[i].rows)))} :
           time_entries' = written.rows /\ next_entry_id' = written.next
    /\ job' = [job EXCEPT !.runs[i].pc = "mark"]
    /\ last' = [op |-> "upsert_time_entries"]
    /\ UNCHANGED <<current_day, submissions, upstream, activity_log, reviews, fetch>>

\* processor.py: database.mark_records_as_processed(processed_record_ids)
PairMark(i) ==
    /\ job.pc = "pair"
    /\ job.runs[i].pc = "mark"
    /\ activity_log' =
           mark_records_as_processed(activity_log, RecordIds(Kept(job.runs[i].rows)))
    /\ job' = [job EXCEPT !.runs[i].pc = "done"]
    /\ last' = [op |-> "mark_records_as_processed"]
    /\ UNCHANGED <<current_day, submissions, upstream, time_entries, next_entry_id, reviews, fetch>>

NextPair ==
    \/ job = IdleJob /\ Upsert
    \/ job = IdleJob /\ MarkStale
    \/ job = IdleJob /\ ReviewProcessAll
    \/ StartPair
    \/ \E i \in Runs : PairRead(i)
    \/ \E i \in Runs : PairWrite(i)
    \/ \E i \in Runs : PairMark(i)

SpecPair == Init /\ [][NextPair]_vars

(***************************************************************************)
(* SpecFail: the fetch operations and aggregation runs whose storage steps *)
(* may raise sqlite3.Error.                                                *)
(***************************************************************************)
FailProcessAll ==
    \E scope \in Scopes, outcome \in Outcomes :
        process_all_data(FALSE, scope[1], scope[2], outcome)

RunProcessJob == \E outcome \in Outcomes : run_process_job(outcome)

NextFail ==
    \/ Upsert
    \/ MarkStale
    \/ FailProcessAll
    \/ RunProcessJob

SpecFail == Init /\ [][NextFail]_vars

(***************************************************************************)
(* SpecApi: unscoped aggregation runs with the handlers of api.py and the  *)
(* CLI update command.                                                     *)
(***************************************************************************)
Submit == \E entry \in Payloads : create_processed_time_entry(entry)

Ignore == \E id \in EntryIds : ignore_time_entry(id)

\* the ids a caller may name: those stored, and one that is not
ProcessedIds == {p.id : p \in processed_time_entries} \cup {next_processed_id}

Revert == \E id \in ProcessedIds : revert_processed_time_entry(id)

ListEntries == \E date \in {NoDate} \cup Range(Dates) : get_time_entries(date)

NextApi ==
    \/ ReviewUpsert
    \/ ReviewProcessAll
    \/ Submit
    \/ Ignore
    \/ Revert
    \/ UpdateEntry
    \/ ListEntries

SpecApi == InitReview /\ [][NextApi]_vars

(***************************************************************************)
(* SpecUnits: the conversion of one duration to units, by processor.py and *)
(* by populate_missing_time_units.                                         *)
(***************************************************************************)
\* the durations converted: some that are not positive, and up to MaxSeconds
SecondsInputs == (0 - 3)..MaxSeconds

\* empty tables, and one total_seconds about to be converted
InitUnits ==
    /\ upstream = {}
    /\ activity_log = {}
    /\ time_entries = {}
    /\ next_entry_id = 1
    /\ reviews = 0
    /\ job = IdleJob
    /\ fetch = IdleFetch
    /\ processed_time_entries = {}
    /\ next_processed_id = 1
    /\ update_metadata = None
    /\ now = Midnight
    /\ last \in {[op |-> "total_seconds", seconds |-> seconds] : seconds \in SecondsInputs}

ConvertUnits ==
    /\ last.op = "total_seconds"
    /\ last' = [op |-> "seconds_to_units", seconds |-> last.seconds,
                time_units |-> seconds_to_units(last.seconds)]
    /\ UNCHANGED <<current_day, submissions, upstream, activity_log, time_entries, next_entry_id,
                   reviews, job, fetch>>

PopulateUnits ==
    /\ last.op = "total_seconds"
    /\ last' = [op |-> "populate_missing_time_units", seconds |-> last.seconds,
                time_units |-> populate_seconds_to_units(last.seconds)]
    /\ UNCHANGED <<current_day, submissions, upstream, activity_log, time_entries, next_entry_id,
                   reviews, job, fetch>>

NextUnits ==
    \/ ConvertUnits
    \/ PopulateUnits

SpecUnits == InitUnits /\ [][NextUnits]_vars

(***************************************************************************)
(* SpecText: the text functions of processor.py applied to one title of    *)
(* one application.                                                        *)
(***************************************************************************)
\* fragments of task descriptions: a code in each delimiter form, six
\* digits, a letter
CodePieces == {"", "[12345]", "_23456_", "_34567", "45678_", " 56789 ", "x", "123456"}

\* the applications of the titles: a word processor, a document viewer
\* and another one
TextActivities == {"microsoft word", "Preview", ActivityNames[1]}

\* what may surround a vague phrase: nothing, blanks, one more character,
\* more words
VagueTitles ==
    {v : v \in VAGUE_NAMES}
        \cup {" " \o v \o "  " : v \in VAGUE_NAMES}
        \cup {v \o "x" : v \in VAGUE_NAMES}
        \cup {v \o " of the quarterly review" : v \in VAGUE_NAMES}
        \cup {"Search, Suggestions", "Search, Suggestions for a long query",
              "Document12", "3 Reminder", "Recent"}

\* titles that hold a file name, alone, behind words, and before the
\* suffixes of a browser, of a mail client and of a word processor
FileTitles ==
    {"plan.docx", "plan.docx - Google Chrome", "plan.docx - Read-Only",
     "plan.docx - Saved", "Edit plan.docx", "notes.txt (2 unread)",
     "[12345] plan.docx", "Plan.DOCX - Saved", "plan.doc"}

\* titles of a document viewer, with and without a pagination suffix and
\* with and without the extension of the file
ViewerTitles ==
    {"scan.pdf", "scan.pdf " \o EnDash \o " Page 1 of 5",
     "scan.pdf " \o EnDash \o " Page 2 of 5", "scan.pdf " \o EnDash \o " 5 pages",
     "Scan", "Scan " \o EnDash \o " Page 1 of 5",
     "Scan " \o EnDash \o " Page 12 of 30", "Scan " \o EnDash \o " 5 pages",
     "Scan " \o EnDash \o " pages", "Scan - Page 1 of 5"}

\* descriptions that hold dates and other digit runs longer or shorter
\* than a code
DateTitles ==
    {"2024-01-15", "20240115 report", "report_20240115", "[20240115]",
     "12345-06-07", "_123456_", "x12345", "12345x", "plan 2024 12345",
     "1234 5678", "012345 ", "_12345-6", "[1234]"}

\* the titles the functions are applied to, each with its application
TextInputs ==
    {<<a \o b \o c, ActivityNames[1]>> : a, b, c \in CodePieces}
        \cup {<<"Report [12345] 99999", ActivityNames[1]>>}
        \cup (VagueTitles \X TextActivities)
        \cup (FileTitles \X TextActivities)
        \cup (ViewerTitles \X TextActivities)
        \cup (DateTitles \X {ActivityNames[1]})

\* empty tables, and one title about to be handled
InitText ==
    /\ upstream = {}
    /\ activity_log = {}
    /\ time_entries = {}
    /\ next_entry_id = 1
    /\ reviews = 0
    /\ job = IdleJob
    /\ fetch = IdleFetch
    /\ processed_time_entries = {}
    /\ next_processed_id = 1
    /\ update_metadata = None
    /\ now = Midnight
    /\ last \in {[op |-> "title", document |-> t[1], activity |-> t[2]] : t \in TextInputs}

\* the tables stay as they are while a text function is applied
TextFrame ==
    UNCHANGED <<current_day, submissions, upstream, activity_log, time_entries, next_entry_id,
                reviews, job, fetch>>

ExtractCode ==
    /\ last.op = "title"
    /\ last' = [op |-> "extract_matter_code", document |-> last.document,
                activity |-> last.activity,
                result |-> extract_matter_code(last.document)]
    /\ TextFrame

CheckVague ==
    /\ last.op = "title"
    /\ last' = [op |-> "is_vague_name", document |-> last.document,
                activity |-> last.activity,
                result |-> is_vague_name(last.document)]
    /\ TextFrame

\* the grouping step of a run on a row with this title
GroupTitle ==
    /\ last.op = "title"
    /\ last' = [op |-> "canonical_key", document |-> last.document,
                activity |-> last.activity,
                result |-> CanonicalKey(last.document, last.activity)]
    /\ TextFrame

NextText ==
    \/ ExtractCode
    \/ CheckVague
    \/ GroupTitle

SpecText == InitText /\ [][NextText]_vars

(***************************************************************************)
(* Properties                                                              *)
(***************************************************************************)
\* the raw row r joins a group: it has a canonical key that is not vague
HasGroup(r) == Canon(r) # None

\* the (log_date, activity, canonical key) group of a raw row that joins one
GroupTriple(r) == <<r.log_date, r.activity, Canon(r)[1]>>

\* the source_hash of the entry the group of r is upserted on
HashOfGroup(r) == get_source_hash(r.log_date, r.activity, GroupTriple(r)[3])

\* the sum of time_spent_seconds over a set of raw rows
RECURSIVE SumOver(_)
SumOver(S) ==
    IF S = {} THEN 0
    ELSE LET r == CHOOSE r \in S : TRUE
         IN  r.time_spent_seconds + SumOver(S \ {r})

\* the keys of the raw rows with processed = 1
Processed(log) == {KeyOf(r) : r \in {q \in log : q.processed = 1}}

\* the raw rows whose processed flag the step flips from 0 to 1
NewlyMarked ==
    {r \in activity_log :
        r.processed = 0 /\ \E q \in activity_log' : KeyOf(q) = KeyOf(r) /\ q.processed = 1}

\* the step is a process_all_data run that ends successfully
SuccessfulRun == last'.op = "process_all_data" /\ last'.result = "ok"

\* no two groups of the tuples the tracker reports share a source_hash
NoCollision ==
    \A r1, r2 \in upstream :
        (HasGroup(r1) /\ HasGroup(r2) /\ GroupTriple(r1) # GroupTriple(r2))
            => HashOfGroup(r1) # HashOfGroup(r2)

\* ---------------------------------------------------------------- C1 ----
\* the source_hash and total_seconds of every entry
Totals(rows) == {<<x.source_hash, x.total_seconds>> : x \in rows}

\* the step is a process_all_data run on the scope of the completed
\* process_all_data run just before it
SecondRun ==
    /\ last.op = "process_all_data"
    /\ Completed(last.result)
    /\ last'.op = "process_all_data"
    /\ last'.start_date = last.start_date
    /\ last'.end_date = last.end_date

\* C1: a process_all_data run that directly follows a completed run on the
\* same scope leaves the source_hash values and the total_seconds of the
\* entries as they were and flips processed to 1 on no raw row.
C1_SecondRunChangesNothing ==
    [][SecondRun => /\ Totals(time_entries') = Totals(time_entries)
                    /\ Processed(activity_log') = Processed(activity_log)]_vars

\* a second run on the scope of a run that marked rows, which found only
\* discarded rows to read
C1_Witness ==
    /\ last.op = "process_all_data"
    /\ last.repeat
    /\ last.result = "no_tasks"
    /\ time_entries # {}
    /\ \E r \in activity_log : r.processed = 1

\* ---------------------------------------------------------------- C2 ----
\* the raw rows of the group an entry is stored for
GroupRows(log, x) ==
    {r \in log : /\ r.log_date = x.entry_date
                 /\ r.activity = x.application
                 /\ Canon(r) = Some(x.task_description)}

\* C2: right after a successful process_all_data run, the total_seconds of
\* every entry is the sum of time_spent_seconds over the raw rows of its
\* group with processed = 1 (stated for inputs where no two groups share a
\* source_hash, so that the collision of C6 plays no part).
C2_TotalIsProcessedSum ==
    (NoCollision /\ last.op = "process_all_data" /\ last.result = "ok")
        => \A x \in time_entries :
              x.total_seconds =
                  SumOver({r \in GroupRows(activity_log, x) : r.processed = 1})

\* ---------------------------------------------------------------- C5 ----
\* C5: time_entries holds at most one row per (entry_date, application,
\* task_description).
C5_OneRowPerGroup ==
    \A x, y \in time_entries :
        (/\ x.entry_date = y.entry_date
         /\ x.application = y.application
         /\ x.task_description = y.task_description) => x = y

\* ---------------------------------------------------------------- C6 ----
\* C6: two raw rows of different groups are keyed by different hashed texts.
C6_DistinctGroupsDistinctHashes ==
    \A r1, r2 \in activity_log :
        (HasGroup(r1) /\ HasGroup(r2) /\ GroupTriple(r1) # GroupTriple(r2))
            => HashOfGroup(r1) # HashOfGroup(r2)

\* ---------------------------------------------------------------- C7 ----
\* C7: after a successful process_all_data run, the entry stored under the
\* source_hash of each group the run marked rows of has, as total_seconds,
\* the sum of time_spent_seconds of the rows the run marked for that group.
C7_WrittenTotalIsMarkedSum ==
    [][SuccessfulRun =>
        \A r \in NewlyMarked :
            \E x \in time_entries' :
                /\ x.source_hash = HashOfGroup(r)
                /\ x.total_seconds =
                       SumOver({q \in NewlyMarked : GroupTriple(q) = GroupTriple(r)})]_vars

\* ---------------------------------------------------------------- C9 ----
\* what upsert_activity_data(data_list) must leave in activity_log
UpsertPost(data_list) ==
    /\ \A r1, r2 \in activity_log' : KeyOf(r1) = KeyOf(r2) => r1 = r2
    /\ {KeyOf(r) : r \in activity_log'} =
           {KeyOf(r) : r \in activity_log} \cup {KeyOf(data_list[i]) : i \in DOMAIN data_list}
    /\ \A i \in DOMAIN data_list :
           (\A j \in DOMAIN data_list : j > i => KeyOf(data_list[j]) # KeyOf(data_list[i]))
               => \E r \in activity_log' :
                     /\ KeyOf(r) = KeyOf(data_list[i])
                     /\ r.time_spent_seconds = data_list[i].time_spent_seconds
                     /\ r.category = data_list[i].category
                     /\ r.productivity = data_list[i].productivity
                     /\ r.processed = 0
    /\ \A r \in activity_log :
           (\A i \in DOMAIN data_list : KeyOf(data_list[i]) # KeyOf(r))
               => r \in activity_log'

\* C9: upsert_activity_data keeps (log_date, activity, document) unique; each
\* triple of data_list ends with the time_spent_seconds, category and
\* productivity of its last tuple and processed = 0, whether the triple was
\* stored before or not; the rows of other triples are untouched.
C9_UpsertKeepsTripleUnique ==
    [][\A data_list \in DataLists(upstream) :
          upsert_activity_data(data_list) => UpsertPost(data_list)]_vars

\* an upsert has replaced a row that a run had marked processed
C9_Witness ==
    /\ last.op = "upsert_activity_data"
    /\ last.replaced
    /\ \E r \in activity_log : r.processed = 0
    /\ \E r \in activity_log : r.processed = 1

\* ---------------------------------------------------------------- C3 ----
\* C3: a raw row with processed = 1 that the last run of the process job
\* read holds the time_spent_seconds the run read (and summed), as it does
\* when every upsert lands before the run's read or after the run's mark.
C3_MarkedRowsWereSummed ==
    \A r \in activity_log :
        r.processed = 1 =>
            \A i \in DOMAIN job.rows :
                KeyOf(job.rows[i]) = KeyOf(r)
                    => job.rows[i].time_spent_seconds = r.time_spent_seconds

\* ---------------------------------------------------------------- C4 ----
\* the step is an aggregation run
AggregationRun == last'.op \in {"process_all_data", "process_data_for_date"}

\* C4: an aggregation run keeps every stored entry, with its entry_id,
\* status and notes (and entry_date, application and source_hash) as they
\* were; no entry_id is stored twice.
C4_RunKeepsReviewFields ==
    [][AggregationRun =>
        \A x \in time_entries :
            \E y \in time_entries' :
                /\ y.entry_id = x.entry_id
                /\ y.status = x.status
                /\ y.notes = x.notes
                /\ y.entry_date = x.entry_date
                /\ y.application = x.application
                /\ y.source_hash = x.source_hash
                /\ \A z \in time_entries' : z.entry_id = y.entry_id => z = y]_vars

\* a run has upserted onto the only stored entry, which an operator had
\* given a status or notes
C4_Witness ==
    /\ last.op \in {"process_all_data", "process_data_for_date"}
    /\ last.result = "ok"
    /\ last.conflict
    /\ Cardinality(time_entries) = 1
    /\ \E x \in time_entries : x.status # "pending" \/ x.notes # None

\* ---------------------------------------------------------------- C8 ----
\* C8: every raw row with processed = 1 has an entry stored for its group
\* whose total_seconds is at least the row's time_spent_seconds (stated for
\* inputs where no two groups share a source_hash, so that the collision of
\* C6 plays no part).
C8_ProcessedRowsAreStored ==
    NoCollision =>
        \A r \in activity_log :
            r.processed = 1 =>
                \E x \in time_entries :
                    /\ x.entry_date = r.log_date
                    /\ x.application = r.activity
                    /\ Some(x.task_description) = Canon(r)
                    /\ x.total_seconds >= r.time_spent_seconds

\* --------------------------------------------------------------- C10 ----
\* r lies in the date scope the run of the step was given
InRunScope(r) ==
    /\ last'.start_date = NoDate \/ DateLE(last'.start_date, r.log_date)
    /\ last'.end_date = NoDate \/ DateLE(r.log_date, last'.end_date)

\* C10: a successful process_all_data run leaves every raw row as it was but
\* for processed, which is 1 afterwards exactly on the rows that were
\* processed before and on the unprocessed rows of the scope that have a
\* group; each of the latter has an entry stored under its group's hash.
C10_MarksExactlyGroupedRows ==
    [][SuccessfulRun =>
        /\ {KeyOf(q) : q \in activity_log'} = {KeyOf(r) : r \in activity_log}
        /\ \A r \in activity_log :
              /\ [r EXCEPT !.processed =
                      IF r.processed = 1 \/ (InRunScope(r) /\ HasGroup(r))
                      THEN 1 ELSE 0] \in activity_log'
              /\ (r.processed = 0 /\ InRunScope(r) /\ HasGroup(r))
                    => \E x \in time_entries' : x.source_hash = HashOfGroup(r)]_vars

\* a scoped run has marked a row, left a discarded row of its scope at
\* processed = 0 and left an unprocessed grouped row outside its scope alone
C10_Witness ==
    /\ last.op = "process_all_data"
    /\ last.result = "ok"
    /\ last.start_date = Dates[2]
    /\ \E r \in activity_log : r.log_date = Dates[2] /\ r.processed = 1
    /\ \E r \in activity_log : r.log_date = Dates[2] /\ r.processed = 0 /\ ~HasGroup(r)
    /\ \E r \in activity_log : r.log_date = Dates[1] /\ r.processed = 0 /\ HasGroup(r)

\* --------------------------------------------------------------- C11 ----
\* the step is a process_all_data run in which a storage step failed
FailedRun ==
    /\ last'.op = "process_all_data"
    /\ last'.result \in {"upsert_failed", "mark_failed"}

\* C11: a process_all_data run in which the upsert of time_entries or the
\* update that marks rows processed fails leaves activity_log and
\* time_entries as they were before the run.
C11_FailedRunChangesNothing ==
    [][FailedRun => /\ activity_log' = activity_log
                    /\ time_entries' = time_entries]_vars

\* --------------------------------------------------------------- C12 ----
\* C12: a process_all_data run in which a storage step failed has raised to
\* its caller, and run_process_job does not announce it as completed
\* successfully.
C12_FailureIsSurfaced ==
    (last.op = "process_all_data" /\ last.result \in {"upsert_failed", "mark_failed"})
        => (last.raised /\ JobReport # "completed successfully")
\* --------------------------------------------------------------- C13 ----
\* the raw rows the run of the step reads and puts into a group
Selected == {r \in activity_log : r.processed = 0 /\ InRunScope(r) /\ HasGroup(r)}

\* the sums the run of the step computes for its groups of date d
DateSums(d) ==
    {SumOver({q \in Selected : GroupTriple(q) = GroupTriple(r)}) :
        r \in {s \in Selected : s.log_date = d}}

\* r1 and r2 have the same activity and canonical key and different dates
SameTaskOtherDate(r1, r2) ==
    /\ HasGroup(r2)
    /\ r1.activity = r2.activity
    /\ Canon(r1) = Canon(r2)
    /\ r1.log_date # r2.log_date

DeliveredSum(data_list, i) ==
    SumSeconds(SelectSeq(data_list,
                         LAMBDA t : HasGroup(t) /\ GroupTriple(t) = GroupTriple(data_list[i])))

\* the unprocessed stored rows of the group of r whose triple data_list does
\* not deliver
OtherUnprocessed(data_list, r) ==
    {q \in activity_log :
        /\ q.processed = 0
        /\ HasGroup(q)
        /\ GroupTriple(q) = GroupTriple(r)
        /\ \A j \in DOMAIN data_list : KeyOf(data_list[j]) # KeyOf(q)}

\* the entries an unscoped process_all_data run computes from the table log
NextEntries(log) == Range(entries_to_upsert(Kept(get_unprocessed_data(log, NoDate, NoDate))))

\* what a process_all_data run makes of the table upsert_activity_data(data_list)
\* leaves: one entry per delivered group, whose total is the sum of every
\* delivered duration of the group (and of the unprocessed rows already held)
DeliveryPost(data_list) ==
    \A i \in DOMAIN data_list :
        HasGroup(data_list[i]) =>
            \E e \in NextEntries(activity_log') :
                /\ e.entry_date = data_list[i].log_date
                /\ e.application = data_list[i].activity
                /\ Some(e.task_description) = Canon(data_list[i])
                /\ e.total_seconds = DeliveredSum(data_list, i)
                                       + SumOver(OtherUnprocessed(data_list, data_list[i]))
                /\ e.time_units = seconds_to_units(e.total_seconds)

\* C14: the observations one fetch delivers for a (log_date, activity,
\* canonical key) group are all summed into the total_seconds of the one
\* entry the next run computes for the group, two observations under one
\* document title included.
C14_DeliveredDurationsAreSummed ==
    [][\A data_list \in DataLists(upstream) :
          upsert_activity_data(data_list) => DeliveryPost(data_list)]_vars

\* the same, for the fetches that deliver no document title twice
DistinctTitlesAreSummed ==
    [][\A data_list \in DataLists(upstream) :
          (/\ upsert_activity_data(data_list)
           /\ \A i, j \in DOMAIN data_list :
                  KeyOf(data_list[i]) = KeyOf(data_list[j]) => i = j)
              => DeliveryPost(data_list)]_vars
\* --------------------------------------------------------------- C15 ----
\* what mark_date_for_reprocessing(date_str) must leave behind
MarkPost(date_str) ==
    /\ time_entries' = time_entries
    /\ next_entry_id' = next_entry_id
    /\ {KeyOf(q) : q \in activity_log'} = {KeyOf(r) : r \in activity_log}
    /\ Cardinality(activity_log') = Cardinality(activity_log)
    /\ \A r \in activity_log :
          \E q \in activity_log' :
              /\ KeyOf(q) = KeyOf(r)
              /\ q.time_spent_seconds = r.time_spent_seconds
              /\ q.category = r.category
              /\ q.productivity = r.productivity
              /\ q.processed = IF r.log_date = date_str THEN 0 ELSE r.processed

C20_StatusInDomain == \A x \in time_entries : x.status \in ReviewStatuses
\* --------------------------------------------------------------- C16 ----
\* the raw rows of the group the entry x was aggregated from
RowsOfEntry(log, x) == {r \in log : HasGroup(r) /\ HashOfGroup(r) = x.source_hash}

\* the step is a revert of the processed entry p that answers 200
RevertOf(p) ==
    /\ last'.op = "revert_processed_time_entry"
    /\ last'.code = 200
    /\ last'.entry_id = p.original_entry_id
    /\ p \notin processed_time_entries'

\* C16: a revert of a stored processed entry removes it, sets the status of
\* its original entry to pending and sets processed to 0 on every raw row of
\* that entry's group.
C16_RevertResetsRawRows ==
    [][\A p \in processed_time_entries :
          RevertOf(p) =>
              /\ \A q \in processed_time_entries' : q.id # p.id
              /\ \A x \in time_entries' :
                    x.entry_id = p.original_entry_id =>
                        /\ x.status = "pending"
                        /\ \A r \in RowsOfEntry(activity_log', x) : r.processed = 0]_vars

\* the same without the raw rows: the processed entry is removed and the
\* status of the original entry is pending
RevertRestoresPending ==
    [][\A p \in processed_time_entries :
          RevertOf(p) =>
              /\ \A q \in processed_time_entries' : q.id # p.id
              /\ \E x \in time_entries' :
                    x.entry_id = p.original_entry_id /\ x.status = "pending"]_vars

\* --------------------------------------------------------------- C17 ----
\* the step is a status update or revert that named an id that is not stored
UnknownIdStep ==
    \/ /\ last'.op \in {"create_processed_time_entry", "ignore_time_entry",
                        "revert_processed_time_entry"}
       /\ ~last'.known
    \/ /\ last'.op = "update_time_entry"
       /\ last'.result = "not_found"

\* the caller of the step is told that the entry was not found
ToldNotFound ==
    IF last'.op = "update_time_entry" THEN last'.result = "not_found"
    ELSE last'.detail = "not_found"

\* C17: an ignore, submit, revert or CLI update that names an entry id that
\* is not stored tells its caller that the entry was not found and leaves
\* time_entries and processed_time_entries as they were.
C17_UnknownIdChangesNothing ==
    [][UnknownIdStep =>
          /\ ToldNotFound
          /\ time_entries' = time_entries
          /\ processed_time_entries' = processed_time_entries]_vars
\* --------------------------------------------------------------- C18 ----
\* the seconds that make one tenth of a unit
SecondsPerTenth == SecondsPerUnit \div TenthsPerUnit

\* n tenths is the exact ceiling for a duration: the least n with
\* SecondsPerTenth * n >= seconds, and one tenth for a duration <= 0
ExactCeiling(seconds, n) ==
    IF seconds <= 0 THEN n = 1
    ELSE /\ SecondsPerTenth * n >= seconds
         /\ SecondsPerTenth * (n - 1) < seconds

TablesUnchanged ==
    /\ activity_log' = activity_log
    /\ time_entries' = time_entries
    /\ next_entry_id' = next_entry_id

\* C19: an aggregation run in debug mode, process_all_data on any scope or
\* process_data_for_date on any date, writes no entry and flips no
\* processed flag.
C19_DebugRunChangesNothing ==
    [][/\ \A scope \in Scopes :
             process_all_data(TRUE, scope[1], scope[2], "ok") => TablesUnchanged
       /\ \A d \in Range(Dates) :
             process_data_for_date(d, TRUE, "ok") => TablesUnchanged]_vars

\* a debug run has grouped an unprocessed row while no entry is stored
C19_Witness ==
    /\ last.op \in {"process_all_data", "process_data_for_date"}
    /\ last.result = "debug"
    /\ time_entries = {}
    /\ \E r \in activity_log : r.processed = 0 /\ HasGroup(r)
\* --------------------------------------------------------------- C21 ----
\* the 5-digit sequences of s
Tokens(s) == {SubSeq(s, d, d + MatterCodeLen - 1) : d \in {e \in 1..Len(s) : FiveDigitsAt(s, e)}}

\* c stands in s in the delimiter form of the given rank: 1 brackets,
\* 2 both underscores, 3 leading underscore, 4 trailing underscore,
\* 5 free-standing
InForm(s, rank, c) ==
    CASE rank = 1 -> Contains(s, "[" \o c \o "]")
      [] rank = 2 -> Contains(s, "_" \o c \o "_")
      [] rank = 3 -> \/ EndsWith(s, "_" \o c)
                     \/ \E w \in Spaces \cup {"_"} : Contains(s, "_" \o c \o w)
      [] rank = 4 -> \/ StartsWith(s, c \o "_")
                     \/ \E w \in Spaces \cup {"_"} : Contains(s, w \o c \o "_")
      [] rank = 5 -> \/ s = c
                     \/ \E w \in Spaces : StartsWith(s, c \o w) \/ EndsWith(s, w \o c)
                     \/ \E v, w \in Spaces : Contains(s, v \o c \o w)

\* the ranks of the forms in which some 5-digit sequence stands in s
FormsIn(s) == {rank \in 1..5 : \E c \in Tokens(s) : InForm(s, rank, c)}

\* C21: extract_matter_code returns a 5-digit sequence that stands in the
\* text in the delimiter form of the highest priority that occurs anywhere
\* in it, wherever sequences in forms of lower priority stand, and None if
\* no form occurs.
C21_HighestPriorityCode ==
    last.op = "extract_matter_code" =>
        IF FormsIn(last.document) = {} THEN last.result = None
        ELSE /\ last.result # None
             /\ last.result[1] \in Tokens(last.document)
             /\ InForm(last.document, Min(FormsIn(last.document)), last.result[1])

\* the bracketed code was returned from a text that also holds a
\* free-standing code
C21_Witness ==
    /\ last.op = "extract_matter_code"
    /\ last.document = "Report [12345] 99999"
    /\ last.result = Some("12345")
\* --------------------------------------------------------------- C22 ----
\* the whole trimmed title is a listed vague phrase within the length limit
IsVaguePhrase(title) ==
    Strip(title) \in VAGUE_NAMES /\ Len(Strip(title)) <= VagueMaxLen

\* C22: is_vague_name is false of every title whose trimmed text is longer
\* than 25 characters and true of every title whose trimmed text is a
\* listed vague phrase of at most 25; the grouping step gives a row with
\* such a title no key.
C22_VagueOnlyWhenShort ==
    /\ last.op = "is_vague_name" =>
          /\ Len(Strip(last.document)) > VagueMaxLen => ~last.result
          /\ IsVaguePhrase(last.document) => last.result
    /\ (last.op = "canonical_key" /\ IsVaguePhrase(last.document)) => last.result = None

\* a vague phrase of 25 characters with one more character was kept
C22_Witness ==
    /\ last.op = "is_vague_name"
    /\ last.document = "Open new and recent filesx"
    /\ Len(last.document) = VagueMaxLen + 1
    /\ ~last.result
\* --------------------------------------------------------------- C23 ----
\* the unprocessed raw rows of the scope of the run of the step
SelectedRows == {r \in activity_log : r.processed = 0 /\ InRunScope(r)}

\* the selected rows that join no group
DiscardedRows == {r \in SelectedRows : ~HasGroup(r)}

\* the step is a run, not in debug mode, that selects at least one row
SelectingRun ==
    /\ last'.op = "process_all_data"
    /\ last'.result # "debug"
    /\ SelectedRows # {}

\* C23: every process_all_data run (not in debug mode) that selects at
\* least one unprocessed row reports a leakage_seconds, which is the summed
\* duration of the selected rows that joined no group and is not negative,
\* also when every selected row is discarded.
C23_LeakageIsReported ==
    [][SelectingRun =>
        /\ last'.leakage_seconds = Some(SumOver(DiscardedRows))
        /\ last'.leakage_seconds[1] >= 0]_vars

\* a run that prints the summary reports the summed duration of the
\* selected rows it discarded
ReportedLeakageIsExact ==
    [][(SelectingRun /\ last'.leakage_seconds # None) =>
        /\ last'.leakage_seconds = Some(SumOver(DiscardedRows))
        /\ last'.leakage_seconds[1] >= 0]_vars

\* a run selected rows, discarded each of them and reported nothing
SilentlyDiscarded ==
    /\ last.op = "process_all_data"
    /\ last.result = "no_tasks"
    /\ last.leakage_seconds = None
    /\ \E r \in activity_log : r.processed = 0 /\ ~HasGroup(r)
\* --------------------------------------------------------------- C24 ----
\* the step stores the response of one date and the response has a row
\* lacking a field among rows under complete headers
ShortRowReceived ==
    /\ last'.op = "fetch_date"
    /\ last'.headers_ok
    /\ last'.short > 0

\* C24: when a response holds a row lacking a field, every complete row of
\* the response is upserted (it is stored, unprocessed) and the job goes on
\* with its remaining dates, in run_fetch_job and in both modes of
\* handle_fetch.
C24_ShortRowIsSkipped ==
    [][ShortRowReceived =>
        /\ \A i \in DOMAIN last'.complete :
              \E r \in activity_log' :
                  KeyOf(r) = KeyOf(last'.complete[i]) /\ r.processed = 0
        /\ ~last'.raised
        /\ last'.rest # <<>> => (fetch'.pc = "mark" /\ fetch'.dates = last'.rest)]_vars

\* run_fetch_job skips the row lacking a field, stores the others and goes on
JobSkipsShortRow ==
    [][(ShortRowReceived /\ last'.caller = "run_fetch_job") =>
        /\ \A i \in DOMAIN last'.complete :
              \E r \in activity_log' :
                  KeyOf(r) = KeyOf(last'.complete[i]) /\ r.processed = 0
        /\ ~last'.raised
        /\ last'.rest # <<>> => (fetch'.pc = "mark" /\ fetch'.dates = last'.rest)]_vars

\* handle_fetch ended on a row lacking a field with a date left to fetch
FetchAborted ==
    /\ last.op = "fetch_date"
    /\ last.caller = "handle_fetch"
    /\ last.raised
    /\ last.complete # <<>>
    /\ last.rest # <<>>
    /\ fetch = IdleFetch
\* --------------------------------------------------------------- C25 ----
\* the step is a process_data_for_date run that committed its entries
DateRunCommitted == last'.op = "process_data_for_date" /\ last'.result = "ok"

\* the unprocessed rows of the date of the run that join the group of r
UnprocessedOfGroup(r) ==
    {q \in activity_log :
        /\ q.log_date = last'.date_str
        /\ q.processed = 0
        /\ HasGroup(q)
        /\ GroupTriple(q) = GroupTriple(r)}

\* C25: a process_data_for_date run that commits computes each entry from
\* the rows of its date with processed = 0 only, and leaves every row that
\* contributed with processed = 1.
C25_DateRunReadsAndMarksUnprocessed ==
    [][DateRunCommitted =>
        \A r \in activity_log :
            (r.log_date = last'.date_str /\ r.processed = 0 /\ HasGroup(r)) =>
                /\ \E x \in time_entries' :
                      /\ x.source_hash = HashOfGroup(r)
                      /\ x.total_seconds = SumOver(UnprocessedOfGroup(r))
                /\ \E q \in activity_log' : KeyOf(q) = KeyOf(r) /\ q.processed = 1]_vars

\* the entries of a process_data_for_date run are sums over rows with
\* processed = 0 only
DateRunReadsUnprocessedOnly ==
    [][DateRunCommitted =>
        \A r \in activity_log :
            (r.log_date = last'.date_str /\ r.processed = 0 /\ HasGroup(r)) =>
                \E x \in time_entries' :
                    /\ x.source_hash = HashOfGroup(r)
                    /\ x.total_seconds = SumOver(UnprocessedOfGroup(r))]_vars

\* a process_data_for_date run stored an entry and left its row unprocessed
DateRunLeftRowUnprocessed ==
    /\ last.op = "process_data_for_date"
    /\ last.result = "ok"
    /\ \E r \in activity_log, x \in time_entries :
          /\ r.log_date = last.date_str
          /\ r.processed = 0
          /\ HasGroup(r)
          /\ x.source_hash = HashOfGroup(r)
\* --------------------------------------------------------------- C26 ----
\* the step stores what the tracker returned for one date of a fetch job
FetchStoresDate == last'.op = "fetch_date"

\* nothing ran between the mark of the date and the step
JustMarked == last.op = "mark_date_for_reprocessing" /\ last.date = last'.date

\* C26: in a fetch job of any caller, a date is fetched and stored only
\* after mark_date_for_reprocessing of that date, and when nothing ran
\* between that mark and the upsert every raw row of the date has
\* processed = 0 once the date is stored.
C26_MarkBeforeUpsert ==
    [][/\ (fetch'.pc = "fetching" /\ fetch.pc # "fetching") =>
             /\ last'.op = "mark_date_for_reprocessing"
             /\ last'.date = fetch'.date
             /\ \A r \in activity_log' : r.log_date = fetch'.date => r.processed = 0
       /\ FetchStoresDate =>
             /\ fetch.pc = "fetching"
             /\ fetch.date = last'.date
             /\ JustMarked =>
                   \A r \in activity_log' : r.log_date = last'.date => r.processed = 0]_vars

\* a date was stored whose held row, aggregated before, was not delivered
\* again and is unprocessed
C26_Witness ==
    /\ last.op = "fetch_date"
    /\ ~last.raised
    /\ last.complete # <<>>
    /\ \A r \in activity_log : r.log_date = last.date => r.processed = 0
    /\ \E r \in activity_log :
          /\ r.log_date = last.date
          /\ HasGroup(r)
          /\ \E x \in time_entries : x.source_hash = HashOfGroup(r)
          /\ \A i \in DOMAIN last.complete : KeyOf(last.complete[i]) # KeyOf(r)
\* --------------------------------------------------------------- C27 ----
\* C27: in every state reached by aggregation runs and the status and notes
\* updates of the operator, each stored entry has time_units =
\* seconds_to_units(total_seconds) and matter_code =
\* extract_matter_code(task_description).
C27_DerivedFieldsAgree ==
    \A x \in time_entries :
        /\ x.time_units = seconds_to_units(x.total_seconds)
        /\ x.matter_code = extract_matter_code(x.task_description)

\* a run rewrote the total of a stored entry that carries a matter code and
\* that the operator had touched
C27_Witness ==
    /\ last.op = "process_all_data"
    /\ last.conflict
    /\ reviews > 0
    /\ \E x \in time_entries :
          /\ x.matter_code = Some("12345")
          /\ x.total_seconds = 200
          /\ x.time_units = seconds_to_units(200)
\* --------------------------------------------------------------- C28 ----
\* the step is the read that starts an unscoped process_all_data run
RunStarts == job.pc = "idle" /\ last'.op = "get_unprocessed_data"

\* no group of the table has both a row with processed = 0 and one with
\* processed = 1
GroupsComplete ==
    \A r, q \in activity_log :
        (HasGroup(r) /\ HasGroup(q) /\ GroupTriple(r) = GroupTriple(q))
            => r.processed = q.processed

\* C28: at the start of every process_all_data run, under any interleaving
\* of a fetch job and a process job, a group with a row of processed = 0 has
\* no row of processed = 1.
C28_UnprocessedGroupsAreComplete ==
    [][RunStarts => GroupsComplete]_vars

\* the process job has marked the rows it read while a fetch stored another
\* title of their group
GroupSplitByRace ==
    /\ last.op = "mark_records_as_processed"
    /\ job.pc = "idle"
    /\ fetch.pc = "idle"
    /\ ~GroupsComplete
\* --------------------------------------------------------------- C29 ----
\* the title of the step holds a recognizable file name
HoldsFileName == FileMatch(last.document) # None

\* the file name the title holds, trimmed
FileNameHeld == Strip(FileMatch(last.document)[1])

\* C29: under every activity, a word processor included, the canonical key
\* of a title that holds a recognizable file name is exactly that file
\* name.
C29_FileNameIsTheKey ==
    (last.op = "canonical_key" /\ HoldsFileName) => last.result = Some(FileNameHeld)

\* outside the word-processor branch the key is the file name
FileNameIsTheKeyOutsideWord ==
    (/\ last.op = "canonical_key"
     /\ HoldsFileName
     /\ ~Contains(last.activity, "microsoft word")) => last.result = Some(FileNameHeld)

\* a word-processor title kept the words after its file name
WordKeepsWholeTitle ==
    /\ last.op = "canonical_key"
    /\ last.activity = "microsoft word"
    /\ last.document = "plan.docx - Saved"
    /\ last.result = Some("plan.docx - Saved")
    /\ CanonicalKey("plan.docx", last.activity) = Some("plan.docx")

\* --------------------------------------------------------------- C30 ----
\* re.sub(r' <en dash> Page \d+ of \d+$', '', s) of clean_document_name
StripPageOf(s) ==
    LET b2 == RunStart(s, Len(s) + 1, Digits)
        b1 == RunStart(s, b2 - 4, Digits)
        lead == " " \o EnDash \o " Page "
    IN  IF /\ b2 <= Len(s)
           /\ b2 > 4
           /\ SubSeq(s, b2 - 4, b2 - 1) = " of "
           /\ b1 <= b2 - 5
           /\ b1 > Len(lead)
           /\ SubSeq(s, b1 - Len(lead), b1 - 1) = lead
        THEN SubSeq(s, 1, b1 - Len(lead) - 1)
        ELSE s

\* re.sub(r' <en dash> \d+ pages$', '', s) of clean_document_name
StripPages(s) ==
    LET e == Len(s) - Len(" pages")
        b == RunStart(s, e + 1, Digits)
        lead == " " \o EnDash \o " "
    IN  IF /\ EndsWith(s, " pages")
           /\ b <= e
           /\ b > Len(lead)
           /\ SubSeq(s, b - Len(lead), b - 1) = lead
        THEN SubSeq(s, 1, b - Len(lead) - 1)
        ELSE s

\* the title without its trailing pagination suffix
StripPagination(s) == StripPages(StripPageOf(s))

\* the title of the step was shown by the document viewer
ViewerStep == last.op = "canonical_key" /\ Contains(last.activity, "Preview")

\* C30: under a document-viewer activity, every title that differs from the
\* title of the step only in its trailing pagination suffix has the same
\* canonical key.
C30_PaginationIsIgnored ==
    ViewerStep =>
        \A t \in ViewerTitles :
            StripPagination(t) = StripPagination(last.document)
                => CanonicalKey(t, last.activity) = last.result

\* the titles that name a .pdf file get the file name as key, whatever their
\* pagination suffix
PdfPaginationIsIgnored ==
    (ViewerStep /\ Contains(last.document, ".pdf")) =>
        \A t \in ViewerTitles :
            StripPagination(t) = StripPagination(last.document)
                => CanonicalKey(t, last.activity) = last.result

\* a page of a document whose title has no extension got a key of its own
PageHasOwnKey ==
    /\ ViewerStep
    /\ last.document = "Scan " \o EnDash \o " Page 1 of 5"
    /\ last.result = Some(last.document)
    /\ StripPagination(last.document) = "Scan"
    /\ CanonicalKey("Scan " \o EnDash \o " Page 12 of 30", last.activity) # last.result
\* --------------------------------------------------------------- C31 ----
\* the positions of s at which a maximal run of exactly five digits starts
WholeRuns(s) ==
    {d \in 1..Len(s) :
        /\ FiveDigitsAt(s, d)
        /\ d = 1 \/ ~IsDigit(Char(s, d - 1))
        /\ d + MatterCodeLen > Len(s) \/ ~IsDigit(Char(s, d + MatterCodeLen))}

\* C31: a code extract_matter_code returns is a maximal run of exactly five
\* digits of the text, standing there in one of the five delimiter forms,
\* never five digits out of a longer run; of the empty text it returns None.
C31_CodeIsAWholeRun ==
    last.op = "extract_matter_code" =>
        /\ last.document = "" => last.result = None
        /\ last.result # None =>
              /\ Len(last.result[1]) = MatterCodeLen
              /\ \E d \in WholeRuns(last.document) :
                    SubSeq(last.document, d, d + MatterCodeLen - 1) = last.result[1]
              /\ \E rank \in 1..5 : InForm(last.document, rank, last.result[1])

\* a description whose only digits are a date behind an underscore gave no
\* code
C31_Witness ==
    /\ last.op = "extract_matter_code"
    /\ last.document = "report_20240115"
    /\ last.result = None
\* --------------------------------------------------------------- C32 ----
\* C32: GET /api/time_entries returns only entries whose status is pending,
\* without a date and with one, and with a date only entries of that date.
C32_OnlyPendingListed ==
    last.op = "get_time_entries" =>
        \A x \in last.entries :
            /\ x.status = "pending"
            /\ last.date # NoDate => x.entry_date = last.date

\* without a date the entries listed are the pending ones
PendingListedWithoutDate ==
    (last.op = "get_time_entries" /\ last.date = NoDate) =>
        last.entries = {x \in time_entries : x.status = "pending"}

\* the list of a date holds an entry the operator has ignored or submitted
HandledEntryListed ==
    /\ last.op = "get_time_entries"
    /\ last.date # NoDate
    /\ \E x \in last.entries : x.status \in {"ignored", "submitted"}
\* --------------------------------------------------------------- C33 ----
\* the step is a submit that was answered with 200
Submitted == last'.op = "create_processed_time_entry" /\ last'.code = 200

\* the rows of the table rows under the key the submit of the step named
RowsOfKey(rows) ==
    {p \in rows : p.source_hash = last'.source_hash /\ p.entry_date = last'.entry_date}

\* C33: after a successful submit there is exactly one processed entry
\* under its (source_hash, entry_date), with the units submitted, and the
\* original entry has status submitted; a submit of a key already stored
\* keeps the row's id and adds no row; no aggregation run changes the
\* processed entries.
C33_OneSubmissionPerKey ==
    [][/\ Submitted =>
             /\ Cardinality(RowsOfKey(processed_time_entries')) = 1
             /\ \A p \in RowsOfKey(processed_time_entries') :
                   p.time_units = last'.time_units
             /\ \E x \in time_entries' :
                   x.entry_id = last'.entry_id /\ x.status = "submitted"
             /\ RowsOfKey(processed_time_entries) # {} =>
                   /\ {p.id : p \in RowsOfKey(processed_time_entries')}
                          = {p.id : p \in RowsOfKey(processed_time_entries)}
                   /\ Cardinality(processed_time_entries')
                          = Cardinality(processed_time_entries)
       /\ last'.op \in {"process_all_data", "process_data_for_date"} =>
             processed_time_entries' = processed_time_entries]_vars

\* a key was submitted again with the units a later run had given its entry
C33_Witness ==
    /\ last.op = "create_processed_time_entry"
    /\ last.code = 200
    /\ last.replaced
    /\ Cardinality(processed_time_entries) = 1
    /\ \E p \in processed_time_entries :
          /\ p.time_units = seconds_to_units(Obs200.time_spent_seconds)
          /\ p.time_units # seconds_to_units(Obs160.time_spent_seconds)
\* --------------------------------------------------------------- C34 ----
\* every raw row that joins a group has processed = 1
AllKeptProcessed == \A r \in activity_log : HasGroup(r) => r.processed = 1

\* a run that starts with every kept row processed selects discarded rows
\* only and changes no table
QuietRun ==
    (job.pc = "scheduled" /\ job'.pc = "idle" /\ AllKeptProcessed) =>
        /\ last'.op = "process_all_data"
        /\ last'.result \in {"no_data", "no_tasks"}
        /\ activity_log' = activity_log
        /\ time_entries' = time_entries
        /\ next_entry_id' = next_entry_id

\* C34: if fetching stops for good and unscoped runs without storage
\* failure keep being scheduled, then from some point on every raw row that
\* joins a group has processed = 1; and a run that starts with every such
\* row processed selects discarded rows only and changes no table.
C34_EveryKeptRowGetsProcessed ==
    /\ <>[](fetch.pc = "stopped") => <>[]AllKeptProcessed
    /\ [][QuietRun]_vars

\* fetching has stopped, the rows that join a group are processed and a run
\* has found discarded rows only
C34_Witness ==
    /\ fetch.pc = "stopped"
    /\ last.op = "process_all_data"
    /\ last.result = "no_tasks"
    /\ AllKeptProcessed
    /\ \E r \in activity_log : HasGroup(r)
    /\ \E r \in activity_log : ~HasGroup(r) /\ r.processed = 0
\* the tables one process_all_data run alone leaves, started on tables t
OneRunAlone(t) ==
    LET rows == get_unprocessed_data(t.activity_log, NoDate, NoDate)
        kept == Kept(rows)
        written == UpsertEntries([rows |-> t.time_entries, next |-> t.next_entry_id],
                                 entries_to_upsert(kept))
    IN  IF RunResult(rows, FALSE, "ok") = "ok"
        THEN [activity_log |-> mark_records_as_processed(t.activity_log, RecordIds(kept)),
              time_entries |-> written.rows,
              next_entry_id |-> written.next]
        ELSE t

PairDone == job.pc = "pair" /\ \A i \in Runs : job.runs[i].pc = "done"

\* C35: when two process_all_data runs started together on a raw store that
\* nothing else changes have both ended, whatever the interleaving of their
\* read, upsert and mark steps, activity_log and time_entries are what one
\* run alone leaves (same entries, same seconds, same processed flags) and
\* no two entries share a source_hash.
C35_TwoRunsEndAsOne ==
    PairDone =>
        /\ Tables = OneRunAlone(job.before)
        /\ \A x \in time_entries, y \in time_entries :
               x.source_hash = y.source_hash => x = y

\* both runs have ended after each read rows to group, so both upserted and
\* both marked, on an entry that existed before they started
C35_Witness ==
    /\ PairDone
    /\ \A i \in Runs : Kept(job.runs[i].rows) # <<>>
    /\ job.before.time_entries # {}
    /\ Tables # job.before

\* --------------------------------------------------------------- C36 ----
\* the fields of the claim, of the entries of date D in a table
EntriesOfDate(rows, D) ==
    {[source_hash |-> x.source_hash, total_seconds |-> x.total_seconds,
      time_units |-> x.time_units, task_description |-> x.task_description,
      matter_code |-> x.matter_code] : x \in {y \in rows : y.entry_date = D}}

\* time_entries after process_all_data(start_date=D, end_date=D) run now
AfterRangeRun(D) ==
    LET rows == get_unprocessed_data(activity_log, D, D)
    IN  IF RunResult(rows, FALSE, "ok") = "ok"
        THEN UpsertEntries(Store, entries_to_upsert(Kept(rows))).rows
        ELSE time_entries

AllUnprocessed(D) == \A r \in activity_log : r.log_date = D => r.processed = 0

\* C36: from a state where every raw row of a date D has processed = 0, a
\* process_data_for_date(D) run that is not a debug run leaves for D the
\* entries process_all_data(start_date=D, end_date=D) leaves from the same
\* state (as a run of it from that state does): same source_hash,
\* total_seconds, time_units, task_description and matter_code.
C36_DateRunWritesAsRangeRun ==
    [][\A D \in Range(Dates) :
          AllUnprocessed(D) =>
            /\ (/\ last'.op = "process_data_for_date"
                /\ last'.date_str = D
                /\ last'.result \in {"ok", "no_data"})
               => EntriesOfDate(time_entries', D) = EntriesOfDate(AfterRangeRun(D), D)
            /\ (/\ last'.op = "process_all_data"
                /\ last'.start_date = D /\ last'.end_date = D
                /\ last'.result # "debug")
               => time_entries' = AfterRangeRun(D)]_vars

\* no two groups of the rows of D are upserted on the same source_hash
NoSharedHash(D) ==
    \A r, q \in activity_log :
        (/\ r.log_date = D /\ q.log_date = D /\ HasGroup(r) /\ HasGroup(q)
         /\ HashOfGroup(r) = HashOfGroup(q)) => GroupTriple(r) = GroupTriple(q)

\* the two runs leave the same entries for D when no two groups of D share
\* a source_hash
DateRunWritesAsRangeRunUnlessSharedHash ==
    [][\A D \in Range(Dates) :
          (/\ AllUnprocessed(D) /\ NoSharedHash(D)
           /\ last'.op = "process_data_for_date"
           /\ last'.date_str = D
           /\ last'.result \in {"ok", "no_data"})
          => EntriesOfDate(time_entries', D) = EntriesOfDate(AfterRangeRun(D), D)]_vars

\* a process_data_for_date run has written, for a date whose raw rows are
\* all unprocessed, an entry that a range run over that date leaves with
\* other seconds
DateRunDiffersFromRangeRun ==
    /\ last.op = "process_data_for_date"
    /\ last.result = "ok"
    /\ AllUnprocessed(last.date_str)
    /\ \E x \in time_entries, y \in AfterRangeRun(last.date_str) :
          /\ x.entry_date = last.date_str
          /\ x.source_hash = y.source_hash
          /\ x.total_seconds # y.total_seconds

\* --------------------------------------------------------------- C37 ----
\* the record of the last current-day update is for today and less than the
\* minimum interval old
RecentRecord ==
    /\ update_metadata # None
    /\ update_metadata[1].date = Today
    /\ minutes_since(update_metadata[1].timestamp) < MinIntervalMinutes

\* the step is a current-day fetch command reaching its gate
GateStep == last'.op = "handle_fetch" /\ fetch.pc = "idle" /\ last' # last

\* a current-day fetch without --force under a recent record changes no
\* table and sends no request
SkipsWhenRecent ==
    (GateStep /\ ~last'.force /\ RecentRecord) =>
        /\ last'.skipped
        /\ UNCHANGED <<activity_log, time_entries, next_entry_id, update_metadata, fetch>>

\* with no record, a record of another date or an interval that has elapsed
\* the fetch marks today for reprocessing and sends its request
ProceedsOtherwise ==
    (GateStep /\ ~RecentRecord) =>
        /\ activity_log' = MarkDate(activity_log, Today)
        /\ fetch'.pc = "fetching"

\* the record is written by a fetch only, and by one that upserted a row
RecordedAfterUpsert ==
    /\ update_metadata' # update_metadata => last'.op = "fetch_current_day"
    /\ (last'.op = "fetch_current_day" /\ fetch.pc = "fetching" /\ last'.recorded)
          => last'.upserted >= 1

\* C37: a current-day fetch without --force changes no table when the last
\* recorded current-day update is for today and less than the minimum
\* interval old; the record is written only by a fetch that upserted at
\* least one row; and the fetch proceeds when there is no record, the
\* record is for another date, or the interval has elapsed.
C37_CurrentDayFetchIsGated ==
    [][SkipsWhenRecent /\ ProceedsOtherwise /\ RecordedAfterUpsert]_vars

\* the gate itself: the skip and the three ways through
CurrentDayGateHolds == [][SkipsWhenRecent /\ ProceedsOtherwise]_vars

\* the record is written only after an upsert of at least one row, as long
\* as the upsert does not fail
RecordedAfterUpsertUnlessFailed ==
    [][/\ update_metadata' # update_metadata => last'.op = "fetch_current_day"
       /\ (/\ last'.op = "fetch_current_day" /\ fetch.pc = "fetching"
           /\ last'.recorded /\ ~last'.failed)
          => last'.upserted >= 1]_vars

\* the record of an update is there, no row of its date was ever stored,
\* and a fetch without --force has just been skipped because of it
RecordWithoutUpsert ==
    /\ last.op = "handle_fetch"
    /\ last.skipped
    /\ update_metadata # None
    /\ \A r \in activity_log : r.log_date # update_metadata[1].date

====
